---- MODULE Spec2Model ----
(***************************************************************************)
(* Tagged URN engine (tagged-urn.js): parser, canonical serializer,        *)
(* matching engine, specificity scorer and UrnMatcher utilities.           *)
(*                                                                         *)
(* Strings are sequences of one-character strings, so that parsing,        *)
(* quoting, case folding and sorting are computed character by character   *)
(* as the code computes them.  A tag object (a JavaScript object used as   *)
(* a map) is a sequence of entries [k, v] in insertion order, which is     *)
(* the order Object.keys / Object.values / for-in report.                  *)
(*                                                                         *)
(* A tag object inherits from Object.prototype: for the two lowercase      *)
(* member names, "constructor" and "__proto__", a read of a key the object *)
(* does not own yields the inherited member, and an assignment to          *)
(* "__proto__" of a string runs the inherited setter, which stores         *)
(* nothing.  The keys drawn for the matching engine, the scorer, the       *)
(* UrnMatcher and the object calls are ordinary names; the parser is also  *)
(* given "__proto__".                                                      *)
(***************************************************************************)
EXTENDS Integers, Sequences, FiniteSets, TLC

(***************************************************************************)
(* Characters                                                              *)
(***************************************************************************)

\* Printable ASCII in code-unit order; Ascii[i] has code unit 31 + i (the
\* grave accent, code unit 96, is a placeholder and never occurs in a string).
Ascii ==
  << " ", "!", "\"", "#", "$", "%", "&", "'", "(", ")", "*", "+", ",", "-", ".", "/",
     "0", "1", "2", "3", "4", "5", "6", "7", "8", "9", ":", ";", "<", "=", ">", "?",
     "@", "A", "B", "C", "D", "E", "F", "G", "H", "I", "J", "K", "L", "M", "N", "O",
     "P", "Q", "R", "S", "T", "U", "V", "W", "X", "Y", "Z", "[", "\\", "]", "^", "_",
     "(grave)", "a", "b", "c", "d", "e", "f", "g", "h", "i", "j", "k", "l", "m", "n", "o",
     "p", "q", "r", "s", "t", "u", "v", "w", "x", "y", "z", "{", "|", "}", "~" >>

AsciiIndex == [c \in { Ascii[i] : i \in 1..Len(Ascii) } |-> CHOOSE i \in 1..Len(Ascii) : Ascii[i] = c]

\* UTF-16 code unit of a character (String.prototype comparison order).
CodeUnit(c) == 31 + AsciiIndex[c]

IsUpper(c) == CodeUnit(c) >= 65 /\ CodeUnit(c) <= 90
IsLower(c) == CodeUnit(c) >= 97 /\ CodeUnit(c) <= 122
IsDigit(c) == CodeUnit(c) >= 48 /\ CodeUnit(c) <= 57

charToLowerCase_identity(c) == c

\* c.toLowerCase() / c.toUpperCase() on one ASCII character.
charToLowerCase(c) == IF IsUpper(c) THEN Ascii[CodeUnit(c) + 32 - 31] ELSE c
charToUpperCase(c) == IF IsLower(c) THEN Ascii[CodeUnit(c) - 32 - 31] ELSE c

\* s.toLowerCase() on a whole string
toLowerCase(s) ==
  [i \in 1..Len(s) |-> IF IsUpper(s[i]) THEN Ascii[CodeUnit(s[i]) + 32 - 31] ELSE s[i]]

\* Characters removed by String.prototype.trim (those of the model's alphabet).
IsWhitespace(c) == c = " "

\* /[a-zA-Z0-9_\-\/:\.]/.test(c)
isValidKeyChar(c) ==
  IsLower(c) \/ IsUpper(c) \/ IsDigit(c) \/ c \in {"_", "-", "/", ":", "."}

\* /[a-zA-Z0-9_\-\/:\.\*\?\!]/.test(c)
isValidUnquotedValueChar(c) ==
  IsLower(c) \/ IsUpper(c) \/ IsDigit(c) \/ c \in {"_", "-", "/", ":", ".", "*", "?", "!"}

\* a < b for JavaScript strings (lexicographic by code unit), the order of
\* Array.prototype.sort() without a comparator.
RECURSIVE StrLess(_, _)
StrLess(x, y) ==
  IF Len(y) = 0 THEN FALSE
  ELSE IF Len(x) = 0 THEN TRUE
  ELSE IF CodeUnit(Head(x)) # CodeUnit(Head(y))
       THEN CodeUnit(Head(x)) < CodeUnit(Head(y))
       ELSE StrLess(Tail(x), Tail(y))

\* The three sentinel values and JavaScript's undefined (no string equals it).
Star == << "*" >>
Question == << "?" >>
Bang == << "!" >>
Undefined == << "undefined" >>

(***************************************************************************)
(* Tag objects                                                             *)
(***************************************************************************)

\* const tags = {}
EmptyTags == << >>

\* Object.keys(tags), Object.values(tags)
ObjectKeys(tags) == [i \in 1..Len(tags) |-> tags[i].k]
ObjectValues(tags) == [i \in 1..Len(tags) |-> tags[i].v]

KeySet(tags) == { tags[i].k : i \in 1..Len(tags) }

\* tags.hasOwnProperty(key)
hasOwnProperty(tags, key) == \E i \in 1..Len(tags) : tags[i].k = key

\* The lowercase names of Object.prototype members, and what a read of them
\* yields on an object that does not own them.
ProtoKey == << "_", "_", "p", "r", "o", "t", "o", "_", "_" >>
ConstructorKey == << "c", "o", "n", "s", "t", "r", "u", "c", "t", "o", "r" >>
ObjectPrototype == << "[object Object.prototype]" >>
ObjectFunction == << "[function Object]" >>

\* tags[key]
Get(tags, key) ==
  IF hasOwnProperty(tags, key)
  THEN tags[CHOOSE i \in 1..Len(tags) : tags[i].k = key].v
  ELSE IF key = ProtoKey THEN ObjectPrototype
  ELSE IF key = ConstructorKey THEN ObjectFunction
  ELSE Undefined

\* tags[key] = value : an existing property keeps its place, a new one is last.
\* tags['__proto__'] = value calls the setter of Object.prototype, which
\* ignores a value that is neither an object nor null.
Put(tags, key, value) ==
  IF key = ProtoKey THEN tags
  ELSE IF hasOwnProperty(tags, key)
  THEN [i \in 1..Len(tags) |-> IF tags[i].k = key THEN [k |-> key, v |-> value] ELSE tags[i]]
  ELSE Append(tags, [k |-> key, v |-> value])

\* delete tags[key]
Delete(tags, key) == SelectSeq(tags, LAMBDA e : e.k # key)

\* Object.assign(target, source)
RECURSIVE ObjectAssign(_, _)
ObjectAssign(target, source) ==
  IF Len(source) = 0 THEN target
  ELSE ObjectAssign(Put(target, Head(source).k, Head(source).v), Tail(source))

\* Array.prototype.sort() of an array of strings (insertion into a sorted array).
RECURSIVE InsertSorted(_, _)
InsertSorted(sorted, x) ==
  IF Len(sorted) = 0 THEN << x >>
  ELSE IF StrLess(x, Head(sorted)) THEN << x >> \o sorted
  ELSE << Head(sorted) >> \o InsertSorted(Tail(sorted), x)

RECURSIVE SortStrings(_)
SortStrings(arr) ==
  IF Len(arr) = 0 THEN << >>
  ELSE InsertSorted(SortStrings(SubSeq(arr, 1, Len(arr) - 1)), arr[Len(arr)])

(***************************************************************************)
(* Descriptor entity                                                       *)
(***************************************************************************)

\* new TaggedUrn(prefix, tags, true)
TaggedUrn(prefix, tags) == [prefix |-> toLowerCase(prefix), tags |-> tags]

\* TaggedUrn.empty(prefix)
empty(prefix) == TaggedUrn(prefix, EmptyTags)

\* Outcome of a call: a returned value, or the code of the TaggedUrnError thrown.
Return(v) == [code |-> "OK", val |-> v]
Throw(code, dflt) == [code |-> code, val |-> dflt]

NoUrn == [prefix |-> << >>, tags |-> << >>]

withTag(self, key, value) ==
  IF value = << >>
  THEN Throw("EMPTY_TAG", NoUrn)
  ELSE Return(TaggedUrn(self.prefix, Put(self.tags, toLowerCase(key), value)))

withoutTag(self, key) ==
  Return(TaggedUrn(self.prefix, Delete(self.tags, toLowerCase(key))))

(***************************************************************************)
(* Parser (TaggedUrn.fromString)                                           *)
(***************************************************************************)

\* The locals of fromString when the state machine starts; error is "OK" until
\* a TaggedUrnError is thrown.
ParserStart ==
  [state |-> "EXPECTING_KEY", currentKey |-> << >>, currentValue |-> << >>,
   tags |-> EmptyTags, error |-> "OK", message |-> "" ]

Fail(cfg, code, message) == [cfg EXCEPT !.error = code, !.message = message]

\* /^\d+$/.test(key)
IsNumeric(key) == Len(key) > 0 /\ \A i \in 1..Len(key) : IsDigit(key[i])

\* finishTag that leaves currentKey and currentValue as they are.
finishTag_keepsKey(cfg) ==
  IF cfg.currentKey = << >> THEN Fail(cfg, "EMPTY_TAG", "empty key")
  ELSE IF cfg.currentValue = << >> THEN Fail(cfg, "EMPTY_TAG", "empty value")
  ELSE IF hasOwnProperty(cfg.tags, cfg.currentKey) THEN Fail(cfg, "DUPLICATE_KEY", "duplicate key")
  ELSE IF IsNumeric(cfg.currentKey) THEN Fail(cfg, "NUMERIC_KEY", "numeric key")
  ELSE [cfg EXCEPT !.tags = Put(cfg.tags, cfg.currentKey, cfg.currentValue)]

finishTag_lastWins(cfg) ==
  IF cfg.currentKey = << >> THEN Fail(cfg, "EMPTY_TAG", "empty key")
  ELSE IF cfg.currentValue = << >> THEN Fail(cfg, "EMPTY_TAG", "empty value")
  ELSE IF IsNumeric(cfg.currentKey) THEN Fail(cfg, "NUMERIC_KEY", "numeric key")
  ELSE [cfg EXCEPT !.tags = Put(cfg.tags, cfg.currentKey, cfg.currentValue),
                   !.currentKey = << >>,
                   !.currentValue = << >>]

finishTag(cfg) ==
  IF cfg.currentKey = << >> THEN Fail(cfg, "EMPTY_TAG", "empty key")
  ELSE IF cfg.currentValue = << >> THEN Fail(cfg, "EMPTY_TAG", "empty value")
  ELSE IF hasOwnProperty(cfg.tags, cfg.currentKey) THEN Fail(cfg, "DUPLICATE_KEY", "duplicate key")
  ELSE IF IsNumeric(cfg.currentKey) THEN Fail(cfg, "NUMERIC_KEY", "numeric key")
  ELSE [cfg EXCEPT !.tags = Put(cfg.tags, cfg.currentKey, cfg.currentValue),
                   !.currentKey = << >>,
                   !.currentValue = << >>]

\* One iteration of the while loop of fromString on character c.
step(cfg, c) ==
  CASE cfg.state = "EXPECTING_KEY" ->
         IF c = ";" THEN cfg
         ELSE IF isValidKeyChar(c)
         THEN [cfg EXCEPT !.currentKey = Append(cfg.currentKey, charToLowerCase(c)),
                          !.state = "IN_KEY"]
         ELSE Fail(cfg, "INVALID_CHARACTER", "invalid character")
    [] cfg.state = "IN_KEY" ->
         IF c = "="
         THEN IF cfg.currentKey = << >> THEN Fail(cfg, "EMPTY_TAG", "empty key")
              ELSE [cfg EXCEPT !.state = "EXPECTING_VALUE"]
         ELSE IF c = ";"
         THEN IF cfg.currentKey = << >> THEN Fail(cfg, "EMPTY_TAG", "empty key")
              ELSE LET done == finishTag([cfg EXCEPT !.currentValue = Star])
                   IN  IF done.error # "OK" THEN done
                       ELSE [done EXCEPT !.state = "EXPECTING_KEY"]
         ELSE IF isValidKeyChar(c)
         THEN [cfg EXCEPT !.currentKey = Append(cfg.currentKey, charToLowerCase(c))]
         ELSE Fail(cfg, "INVALID_CHARACTER", "invalid character in key")
    [] cfg.state = "EXPECTING_VALUE" ->
         IF c = "\"" THEN [cfg EXCEPT !.state = "IN_QUOTED_VALUE"]
         ELSE IF c = ";" THEN Fail(cfg, "EMPTY_TAG", "empty value")
         ELSE IF isValidUnquotedValueChar(c)
         THEN [cfg EXCEPT !.currentValue = Append(cfg.currentValue, charToLowerCase(c)),
                          !.state = "IN_UNQUOTED_VALUE"]
         ELSE Fail(cfg, "INVALID_CHARACTER", "invalid character in value")
    [] cfg.state = "IN_UNQUOTED_VALUE" ->
         IF c = ";"
         THEN LET done == finishTag(cfg)
              IN  IF done.error # "OK" THEN done
                  ELSE [done EXCEPT !.state = "EXPECTING_KEY"]
         ELSE IF isValidUnquotedValueChar(c)
         THEN [cfg EXCEPT !.currentValue = Append(cfg.currentValue, charToLowerCase(c))]
         ELSE Fail(cfg, "INVALID_CHARACTER", "invalid character in unquoted value")
    [] cfg.state = "IN_QUOTED_VALUE" ->
         IF c = "\"" THEN [cfg EXCEPT !.state = "EXPECTING_SEMI_OR_END"]
         ELSE IF c = "\\" THEN [cfg EXCEPT !.state = "IN_QUOTED_VALUE_ESCAPE"]
         ELSE [cfg EXCEPT !.currentValue = Append(cfg.currentValue, c)]
    [] cfg.state = "IN_QUOTED_VALUE_ESCAPE" ->
         IF c = "\"" \/ c = "\\"
         THEN [cfg EXCEPT !.currentValue = Append(cfg.currentValue, c),
                          !.state = "IN_QUOTED_VALUE"]
         ELSE Fail(cfg, "INVALID_ESCAPE_SEQUENCE", "invalid escape sequence")
    [] cfg.state = "EXPECTING_SEMI_OR_END" ->
         IF c = ";"
         THEN LET done == finishTag(cfg)
              IN  IF done.error # "OK" THEN done
                  ELSE [done EXCEPT !.state = "EXPECTING_KEY"]
         ELSE Fail(cfg, "INVALID_CHARACTER", "expected ; or end after quoted value")

\* The switch after the loop with a quoted value closed by the end of the input.
endOfInput_closesQuote(cfg) ==
  CASE cfg.state \in { "IN_UNQUOTED_VALUE", "EXPECTING_SEMI_OR_END", "IN_QUOTED_VALUE" } ->
         finishTag(cfg)
    [] cfg.state = "EXPECTING_KEY" -> cfg
    [] cfg.state = "IN_QUOTED_VALUE_ESCAPE" ->
         Fail(cfg, "UNTERMINATED_QUOTE", "unterminated quote")
    [] cfg.state = "IN_KEY" ->
         IF cfg.currentKey = << >> THEN Fail(cfg, "EMPTY_TAG", "empty key")
         ELSE finishTag([cfg EXCEPT !.currentValue = Star])
    [] cfg.state = "EXPECTING_VALUE" -> Fail(cfg, "EMPTY_TAG", "empty value")

\* The switch after the loop ("Handle end of input").
endOfInput(cfg) ==
  CASE cfg.state \in { "IN_UNQUOTED_VALUE", "EXPECTING_SEMI_OR_END" } -> finishTag(cfg)
    [] cfg.state = "EXPECTING_KEY" -> cfg
    [] cfg.state \in { "IN_QUOTED_VALUE", "IN_QUOTED_VALUE_ESCAPE" } ->
         Fail(cfg, "UNTERMINATED_QUOTE", "unterminated quote")
    [] cfg.state = "IN_KEY" ->
         IF cfg.currentKey = << >> THEN Fail(cfg, "EMPTY_TAG", "empty key")
         ELSE finishTag([cfg EXCEPT !.currentValue = Star])
    [] cfg.state = "EXPECTING_VALUE" -> Fail(cfg, "EMPTY_TAG", "empty value")

\* while (pos < chars.length) { ... pos++ } : a throw leaves the loop.
RECURSIVE parseLoop(_, _, _)
parseLoop(chars, pos, cfg) ==
  IF cfg.error # "OK" \/ pos > Len(chars) THEN cfg
  ELSE parseLoop(chars, pos + 1, step(cfg, chars[pos]))

\* s.indexOf(':'), counted from 1; 0 when there is none.
indexOfColon(s) ==
  IF \E i \in 1..Len(s) : s[i] = ":"
  THEN CHOOSE i \in 1..Len(s) : s[i] = ":" /\ \A j \in 1..(i - 1) : s[j] # ":"
  ELSE 0

\* TaggedUrn.fromString(s)
fromString(s) ==
  IF s = << >> THEN Throw("INVALID_FORMAT", NoUrn)
  ELSE IF IsWhitespace(s[1]) \/ IsWhitespace(s[Len(s)]) THEN Throw("WHITESPACE_IN_INPUT", NoUrn)
  ELSE IF indexOfColon(s) = 0 THEN Throw("MISSING_PREFIX", NoUrn)
  ELSE IF indexOfColon(s) = 1 THEN Throw("EMPTY_PREFIX", NoUrn)
  ELSE LET prefix == toLowerCase(SubSeq(s, 1, indexOfColon(s) - 1))
           tagsPart == SubSeq(s, indexOfColon(s) + 1, Len(s))
       IN  IF tagsPart = << >> \/ tagsPart = << ";" >>
           THEN Return(TaggedUrn(prefix, EmptyTags))
           ELSE LET looped == parseLoop(tagsPart, 1, ParserStart)
                    final == IF looped.error # "OK" THEN looped ELSE endOfInput(looped)
                IN  IF final.error # "OK" THEN Throw(final.error, NoUrn)
                    ELSE Return(TaggedUrn(prefix, final.tags))

(***************************************************************************)
(* Canonical serializer (TaggedUrn.toString)                               *)
(***************************************************************************)

needsQuoting(value) ==
  \E i \in 1..Len(value) :
    \/ value[i] \in { ";", "=", "\"", "\\", " " }
    \/ charToUpperCase(value[i]) # charToLowerCase(value[i]) /\ value[i] = charToUpperCase(value[i])

\* The loop of quoteValue, without the enclosing quotes.
RECURSIVE escapeChars(_)
escapeChars(value) ==
  IF Len(value) = 0 THEN << >>
  ELSE (IF Head(value) = "\"" \/ Head(value) = "\\" THEN << "\\" >> ELSE << >>)
       \o << Head(value) >> \o escapeChars(Tail(value))

quoteValue(value) == << "\"" >> \o escapeChars(value) \o << "\"" >>

\* The callback that writes the value * like an exact value that needs quotes.
tagPart_quotesStar(tags, key) ==
  LET value == Get(tags, key)
  IN  CASE value = Star -> key \o << "=" >> \o quoteValue(value)
        [] value = Question -> key \o << "=", "?" >>
        [] value = Bang -> key \o << "=", "!" >>
        [] OTHER -> IF needsQuoting(value)
                    THEN key \o << "=" >> \o quoteValue(value)
                    ELSE key \o << "=" >> \o value

\* The callback of sortedKeys.map in toString.
tagPart(tags, key) ==
  LET value == Get(tags, key)
  IN  CASE value = Star -> key
        [] value = Question -> key \o << "=", "?" >>
        [] value = Bang -> key \o << "=", "!" >>
        [] OTHER -> IF needsQuoting(value)
                    THEN key \o << "=" >> \o quoteValue(value)
                    ELSE key \o << "=" >> \o value

\* parts.join(';')
RECURSIVE join(_)
join(parts) ==
  IF Len(parts) = 0 THEN << >>
  ELSE IF Len(parts) = 1 THEN parts[1]
  ELSE parts[1] \o << ";" >> \o join(Tail(parts))

toString_unsorted(self) ==
  IF Len(self.tags) = 0 THEN self.prefix \o << ":" >>
  ELSE LET keys == ObjectKeys(self.tags)
       IN  self.prefix \o << ":" >>
             \o join([i \in 1..Len(keys) |-> tagPart(self.tags, keys[i])])

\* TaggedUrn.toString
toString(self) ==
  IF Len(ObjectKeys(self.tags)) = 0 THEN self.prefix \o << ":" >>
  ELSE LET sortedKeys == SortStrings(ObjectKeys(self.tags))
       IN  self.prefix \o << ":" >>
             \o join([i \in 1..Len(sortedKeys) |-> tagPart(self.tags, sortedKeys[i])])

equals_unsorted(self, other) ==
  /\ self.prefix = other.prefix
  /\ self.tags = other.tags

\* TaggedUrn.equals
equals(self, other) ==
  IF self.prefix # other.prefix THEN FALSE
  ELSE LET thisKeys == SortStrings(ObjectKeys(self.tags))
           otherKeys == SortStrings(ObjectKeys(other.tags))
       IN  IF Len(thisKeys) # Len(otherKeys) THEN FALSE
           ELSE \A i \in 1..Len(thisKeys) :
                  /\ thisKeys[i] = otherKeys[i]
                  /\ Get(self.tags, thisKeys[i]) = Get(other.tags, otherKeys[i])

(***************************************************************************)
(* Matching engine                                                         *)
(***************************************************************************)

valuesMatch_flipped(inst, patt) ==
  IF patt = Undefined \/ patt = Question THEN TRUE
  ELSE IF inst = Question THEN TRUE
  ELSE IF patt = Bang THEN inst = Undefined \/ inst = Bang
  ELSE IF inst = Bang THEN FALSE
  ELSE IF patt = Star THEN TRUE
  ELSE IF inst = Undefined THEN FALSE
  ELSE IF inst = Star THEN TRUE
  ELSE inst = patt

\* valuesMatch whose must-not-have pattern is met by a missing tag only.
valuesMatch_bangNeedsMissing(inst, patt) ==
  IF patt = Undefined \/ patt = Question THEN TRUE
  ELSE IF inst = Question THEN TRUE
  ELSE IF patt = Bang THEN inst = Undefined
  ELSE IF inst = Bang THEN FALSE
  ELSE IF patt = Star THEN inst # Undefined
  ELSE IF inst = Undefined THEN FALSE
  ELSE IF inst = Star THEN TRUE
  ELSE inst = patt

\* valuesMatch without the "pattern has no entry" case.
valuesMatch_noExtra(inst, patt) ==
  IF patt = Question THEN TRUE
  ELSE IF inst = Question THEN TRUE
  ELSE IF patt = Undefined THEN inst = Undefined
  ELSE IF patt = Bang THEN inst = Undefined \/ inst = Bang
  ELSE IF inst = Bang THEN FALSE
  ELSE IF patt = Star THEN inst # Undefined
  ELSE IF inst = Undefined THEN FALSE
  ELSE IF inst = Star THEN TRUE
  ELSE inst = patt

\* valuesMatch without the "instance doesn't care" case.
valuesMatch_questionStrict(inst, patt) ==
  IF patt = Undefined \/ patt = Question THEN TRUE
  ELSE IF patt = Bang THEN inst = Undefined \/ inst = Bang
  ELSE IF inst = Bang THEN FALSE
  ELSE IF patt = Star THEN inst # Undefined
  ELSE IF inst = Undefined THEN FALSE
  ELSE IF inst = Star THEN TRUE
  ELSE inst = patt

valuesMatch(inst, patt) ==
  IF patt = Undefined \/ patt = Question THEN TRUE
  ELSE IF inst = Question THEN TRUE
  ELSE IF patt = Bang THEN
         IF inst = Undefined THEN TRUE
         ELSE IF inst = Bang THEN TRUE
         ELSE FALSE
  ELSE IF inst = Bang THEN FALSE
  ELSE IF patt = Star THEN
         IF inst = Undefined THEN FALSE ELSE TRUE
  ELSE IF inst = Undefined THEN FALSE
  ELSE IF inst = Star THEN TRUE
  ELSE inst = patt

checkMatch_noPrefixCheck(instanceTags, instancePrefix, patternTags, patternPrefix) ==
  Return(\A key \in KeySet(instanceTags) \cup KeySet(patternTags) :
           valuesMatch(Get(instanceTags, key), Get(patternTags, key)))

\* TaggedUrn._checkMatch
checkMatch(instanceTags, instancePrefix, patternTags, patternPrefix) ==
  IF instancePrefix # patternPrefix
  THEN Throw("PREFIX_MISMATCH", FALSE)
  ELSE Return(\A key \in KeySet(instanceTags) \cup KeySet(patternTags) :
                valuesMatch(Get(instanceTags, key), Get(patternTags, key)))

conformsTo(self, pattern) ==
  checkMatch(self.tags, self.prefix, pattern.tags, pattern.prefix)

accepts_self(self, instance) ==
  checkMatch(self.tags, self.prefix, instance.tags, instance.prefix)

accepts(self, instance) ==
  checkMatch(instance.tags, instance.prefix, self.tags, self.prefix)

\* isEquivalent: the two tag maps are identical (same keys, same values) under
\* the same prefix; PREFIX_MISMATCH otherwise.
isEquivalent(self, other) ==
  IF self.prefix # other.prefix
  THEN Throw("PREFIX_MISMATCH", FALSE)
  ELSE Return(/\ KeySet(self.tags) = KeySet(other.tags)
              /\ \A key \in KeySet(self.tags) : Get(self.tags, key) = Get(other.tags, key))

\* isComparable: self.conformsTo(other) or other.conformsTo(self);
\* PREFIX_MISMATCH otherwise.
isComparable(self, other) ==
  IF self.prefix # other.prefix
  THEN Throw("PREFIX_MISMATCH", FALSE)
  ELSE Return(conformsTo(self, other).val \/ conformsTo(other, self).val)

(***************************************************************************)
(* Compatibility (the variant of the file that has isCompatibleWith)       *)
(***************************************************************************)

\* valuesCompatible with the must-have-any case tested before must-not-have.
valuesCompatible_starFirst(v1, v2) ==
  IF v1 = Undefined \/ v2 = Undefined THEN TRUE
  ELSE IF v1 = Question \/ v2 = Question THEN TRUE
  ELSE IF v1 = Star \/ v2 = Star THEN TRUE
  ELSE IF v1 = Bang /\ v2 = Bang THEN TRUE
  ELSE IF v1 = Bang \/ v2 = Bang THEN FALSE
  ELSE v1 = v2

\* valuesCompatible without the comparison of two exact values.
valuesCompatible_anyExact(v1, v2) ==
  IF v1 = Undefined \/ v2 = Undefined THEN TRUE
  ELSE IF v1 = Question \/ v2 = Question THEN TRUE
  ELSE IF v1 = Bang /\ v2 = Bang THEN TRUE
  ELSE IF v1 = Bang \/ v2 = Bang THEN FALSE
  ELSE TRUE

valuesCompatible(v1, v2) ==
  IF v1 = Undefined \/ v2 = Undefined THEN TRUE
  ELSE IF v1 = Question \/ v2 = Question THEN TRUE
  ELSE IF v1 = Bang /\ v2 = Bang THEN TRUE
  ELSE IF v1 = Bang \/ v2 = Bang THEN FALSE
  ELSE IF v1 = Star /\ v2 = Star THEN TRUE
  ELSE IF v1 = Star \/ v2 = Star THEN TRUE
  ELSE v1 = v2

isCompatibleWith(self, other) ==
  IF self.prefix # other.prefix
  THEN Throw("PREFIX_MISMATCH", FALSE)
  ELSE Return(\A key \in KeySet(self.tags) \cup KeySet(other.tags) :
                valuesCompatible(Get(self.tags, key), Get(other.tags, key)))

(***************************************************************************)
(* Specificity scorer                                                      *)
(***************************************************************************)

RECURSIVE SumScores(_)
SumScores(values) ==
  IF Len(values) = 0 THEN 0
  ELSE (CASE Head(values) = Question -> 0
          [] Head(values) = Bang -> 1
          [] Head(values) = Star -> 2
          [] OTHER -> 3) + SumScores(Tail(values))

specificity_flat(self) == 3 * Len(self.tags)

specificity(self) == SumScores(ObjectValues(self.tags))

\* The loop of specificityTuple: [exact, mustHaveAny, mustNot].
RECURSIVE CountTuple(_)
CountTuple(values) ==
  IF Len(values) = 0 THEN << 0, 0, 0 >>
  ELSE LET rest == CountTuple(Tail(values))
       IN  CASE Head(values) = Question -> rest
             [] Head(values) = Bang -> << rest[1], rest[2], rest[3] + 1 >>
             [] Head(values) = Star -> << rest[1], rest[2] + 1, rest[3] >>
             [] OTHER -> << rest[1] + 1, rest[2], rest[3] >>

specificityTuple(self) == CountTuple(ObjectValues(self.tags))

\* isMoreSpecificThan of the variant that first asks isCompatibleWith.
isMoreSpecificThan_ifCompatible(self, other) ==
  IF self.prefix # other.prefix
  THEN Throw("PREFIX_MISMATCH", FALSE)
  ELSE IF ~isCompatibleWith(self, other).val THEN Return(FALSE)
  ELSE Return(specificity(self) > specificity(other))

isMoreSpecificThan(self, other) ==
  IF self.prefix # other.prefix
  THEN Throw("PREFIX_MISMATCH", FALSE)
  ELSE Return(specificity(self) > specificity(other))

merge_noPrefixCheck(self, other) ==
  Return(TaggedUrn(self.prefix, ObjectAssign(self.tags, other.tags)))

merge(self, other) ==
  IF self.prefix # other.prefix
  THEN Throw("PREFIX_MISMATCH", NoUrn)
  ELSE Return(TaggedUrn(self.prefix, ObjectAssign(self.tags, other.tags)))

(***************************************************************************)
(* UrnMatcher                                                              *)
(***************************************************************************)

\* JavaScript's null (no descriptor equals it).
Null == [prefix |-> << "null" >>, tags |-> << >>]

\* The loop of findBestMatch from element i on, with the best candidate so far.
RECURSIVE findBestMatchLoop(_, _, _, _, _)
findBestMatchLoop(urns, request, i, best, bestSpecificity) ==
  IF i > Len(urns) THEN Return(best)
  ELSE LET m == conformsTo(urns[i], request)
       IN  IF m.code # "OK" THEN Throw(m.code, Null)
           ELSE IF m.val /\ specificity(urns[i]) > bestSpecificity
                THEN findBestMatchLoop(urns, request, i + 1, urns[i], specificity(urns[i]))
                ELSE findBestMatchLoop(urns, request, i + 1, best, bestSpecificity)

RECURSIVE findBestMatch_lastWinsLoop(_, _, _, _, _)
findBestMatch_lastWinsLoop(urns, request, i, best, bestSpecificity) ==
  IF i > Len(urns) THEN Return(best)
  ELSE LET m == conformsTo(urns[i], request)
       IN  IF m.code # "OK" THEN Throw(m.code, Null)
           ELSE IF m.val /\ specificity(urns[i]) >= bestSpecificity
                THEN findBestMatch_lastWinsLoop(urns, request, i + 1, urns[i], specificity(urns[i]))
                ELSE findBestMatch_lastWinsLoop(urns, request, i + 1, best, bestSpecificity)

findBestMatch_lastWins(urns, request) ==
  findBestMatch_lastWinsLoop(urns, request, 1, Null, -1)

\* UrnMatcher.findBestMatch
findBestMatch(urns, request) == findBestMatchLoop(urns, request, 1, Null, -1)

\* The filtering loop of findAllMatches from element i on.
RECURSIVE findAllMatchesLoop(_, _, _, _)
findAllMatchesLoop(urns, request, i, results) ==
  IF i > Len(urns) THEN Return(results)
  ELSE LET m == conformsTo(urns[i], request)
       IN  IF m.code # "OK" THEN Throw(m.code, << >>)
           ELSE findAllMatchesLoop(urns, request, i + 1,
                                   IF m.val THEN Append(results, urns[i]) ELSE results)

\* Insertion of x into an array sorted by (a, b) => b.specificity() - a.specificity(),
\* after the elements that compare equal to it (Array.prototype.sort is stable).
RECURSIVE InsertBySpecificity(_, _)
InsertBySpecificity_beforeEqual(sorted, x) ==
  IF Len(sorted) = 0 THEN << x >>
  ELSE IF specificity(Head(sorted)) - specificity(x) <= 0 THEN << x >> \o sorted
  ELSE << Head(sorted) >> \o InsertBySpecificity(Tail(sorted), x)

InsertBySpecificity(sorted, x) ==
  IF Len(sorted) = 0 THEN << x >>
  ELSE IF specificity(Head(sorted)) - specificity(x) < 0 THEN << x >> \o sorted
  ELSE << Head(sorted) >> \o InsertBySpecificity(Tail(sorted), x)

\* results.sort((a, b) => b.specificity() - a.specificity())
RECURSIVE SortBySpecificity(_)
SortBySpecificity(results) ==
  IF Len(results) = 0 THEN << >>
  ELSE InsertBySpecificity(SortBySpecificity(SubSeq(results, 1, Len(results) - 1)),
                           results[Len(results)])

\* UrnMatcher.findAllMatches: the outcome, and the array urns as the call leaves it.
findAllMatches(urns, request) ==
  LET filtered == findAllMatchesLoop(urns, request, 1, << >>)
  IN  [res |-> IF filtered.code # "OK" THEN filtered
               ELSE Return(SortBySpecificity(filtered.val)),
       urns |-> urns]

\* The double loop of areCompatible from the pair (i, j) on.
RECURSIVE areCompatibleLoop(_, _, _, _)
areCompatibleLoop(urns1, urns2, i, j) ==
  IF i > Len(urns1) THEN Return(FALSE)
  ELSE IF j > Len(urns2) THEN areCompatibleLoop(urns1, urns2, i + 1, 1)
  ELSE LET forth == accepts(urns1[i], urns2[j])
           back == accepts(urns2[j], urns1[i])
       IN  IF forth.code # "OK" THEN Throw(forth.code, FALSE)
           ELSE IF forth.val THEN Return(TRUE)
           ELSE IF back.code # "OK" THEN Throw(back.code, FALSE)
           ELSE IF back.val THEN Return(TRUE)
           ELSE areCompatibleLoop(urns1, urns2, i, j + 1)

\* UrnMatcher.areCompatible
areCompatible(urns1, urns2) == areCompatibleLoop(urns1, urns2, 1, 1)

(***************************************************************************)
(* Objects.  A descriptor and a builder are objects with an identity, and  *)
(* each refers to a tag object of its own.  mem holds the tag objects      *)
(* (mem.heap, a reference being an index) and the TaggedUrn objects        *)
(* (mem.descs, each a prefix and the reference of its tags), in the order  *)
(* they were created.  A method yields the memory it leaves and its        *)
(* outcome; a returned descriptor is its index in mem.descs.               *)
(***************************************************************************)

NoMem == [heap |-> << >>, descs |-> << >>]

\* The descriptor at index d as a value: its prefix and the content of its tags.
Deref(mem, d) == [prefix |-> mem.descs[d].prefix, tags |-> mem.heap[mem.descs[d].tags]]

Outcome(mem, res) == [mem |-> mem, res |-> res]

\* { ...tags } or {}: a new tag object with the given content; its reference
\* is Len of the heap returned.
NewObject(mem, content) == [mem EXCEPT !.heap = Append(@, content)]

\* obj[key] = value / delete obj[key] / Object.assign(obj, source)
SetProperty(mem, ref, key, value) == [mem EXCEPT !.heap[ref] = Put(@, key, value)]
DeleteProperty(mem, ref, key) == [mem EXCEPT !.heap[ref] = Delete(@, key)]
AssignProperties(mem, ref, source) ==
  [mem EXCEPT !.heap[ref] = ObjectAssign(@, mem.heap[source])]

\* The constructor that keeps the object it is given: this.tags = tags
TaggedUrn_new_sameObject(mem, prefix, tags) ==
  [mem EXCEPT !.descs = Append(@, [prefix |-> toLowerCase(prefix), tags |-> tags])]

\* new TaggedUrn(prefix, tags, true): this.tags = { ...tags }
TaggedUrn_new(mem, prefix, tags) ==
  LET copied == NewObject(mem, mem.heap[tags])
  IN  [copied EXCEPT !.descs = Append(@, [prefix |-> toLowerCase(prefix),
                                          tags |-> Len(copied.heap)])]

\* The outcome of a method that ends in "return new TaggedUrn(...)".
ReturnNew(mem) == Outcome(mem, Return(Len(mem.descs)))

\* TaggedUrn.empty(prefix)
TaggedUrn_empty(mem, prefix) ==
  LET tags == NewObject(mem, EmptyTags)
  IN  ReturnNew(TaggedUrn_new(tags, prefix, Len(tags.heap)))

\* TaggedUrn.fromString(s): the parser fills a tag object of its own and hands
\* it to the constructor.
TaggedUrn_fromString(mem, s) ==
  LET r == fromString(s)
      tags == NewObject(mem, r.val.tags)
  IN  IF r.code # "OK" THEN Outcome(mem, Throw(r.code, 0))
      ELSE ReturnNew(TaggedUrn_new(tags, r.val.prefix, Len(tags.heap)))

\* withTag that stores the tag under the key as given.
TaggedUrn_withTag_keyAsGiven(mem, this, key, value) ==
  IF value = << >>
  THEN Outcome(mem, Throw("EMPTY_TAG", 0))
  ELSE LET newTags == NewObject(mem, mem.heap[mem.descs[this].tags])
           ref == Len(newTags.heap)
       IN  ReturnNew(TaggedUrn_new(SetProperty(newTags, ref, key, value),
                                   mem.descs[this].prefix, ref))

\* withTag as the variant of the file without the empty-value check has it.
TaggedUrn_withTag_noEmptyCheck(mem, this, key, value) ==
  LET newTags == NewObject(mem, mem.heap[mem.descs[this].tags])
      ref == Len(newTags.heap)
  IN  ReturnNew(TaggedUrn_new(SetProperty(newTags, ref, toLowerCase(key), value),
                              mem.descs[this].prefix, ref))

\* TaggedUrn.withTag
TaggedUrn_withTag(mem, this, key, value) ==
  IF value = << >>
  THEN Outcome(mem, Throw("EMPTY_TAG", 0))
  ELSE LET newTags == NewObject(mem, mem.heap[mem.descs[this].tags])
           ref == Len(newTags.heap)
       IN  ReturnNew(TaggedUrn_new(SetProperty(newTags, ref, toLowerCase(key), value),
                                   mem.descs[this].prefix, ref))

\* TaggedUrn.withoutTag
TaggedUrn_withoutTag(mem, this, key) ==
  LET newTags == NewObject(mem, mem.heap[mem.descs[this].tags])
      ref == Len(newTags.heap)
  IN  ReturnNew(TaggedUrn_new(DeleteProperty(newTags, ref, toLowerCase(key)),
                              mem.descs[this].prefix, ref))

\* TaggedUrn.withWildcardTag
TaggedUrn_withWildcardTag(mem, this, key) ==
  IF hasOwnProperty(mem.heap[mem.descs[this].tags], toLowerCase(key))
  THEN TaggedUrn_withTag(mem, this, key, Star)
  ELSE Outcome(mem, Return(this))

\* The loop of subset over the keys from index i on.
RECURSIVE subsetLoop(_, _, _, _, _)
subsetLoop(mem, this, keys, i, newTags) ==
  IF i > Len(keys) THEN mem
  ELSE LET normalizedKey == toLowerCase(keys[i])
           own == mem.heap[mem.descs[this].tags]
       IN  subsetLoop(IF hasOwnProperty(own, normalizedKey)
                      THEN SetProperty(mem, newTags, normalizedKey, Get(own, normalizedKey))
                      ELSE mem,
                      this, keys, i + 1, newTags)

\* TaggedUrn.subset
TaggedUrn_subset(mem, this, keys) ==
  LET newTags == NewObject(mem, EmptyTags)
      ref == Len(newTags.heap)
  IN  ReturnNew(TaggedUrn_new(subsetLoop(newTags, this, keys, 1, ref),
                              mem.descs[this].prefix, ref))

\* TaggedUrn.merge
TaggedUrn_merge(mem, this, other) ==
  IF mem.descs[this].prefix # mem.descs[other].prefix
  THEN Outcome(mem, Throw("PREFIX_MISMATCH", 0))
  ELSE LET newTags == NewObject(mem, mem.heap[mem.descs[this].tags])
           ref == Len(newTags.heap)
       IN  ReturnNew(TaggedUrn_new(AssignProperties(newTags, ref, mem.descs[other].tags),
                                   mem.descs[this].prefix, ref))

\* TaggedUrn.getTag / TaggedUrn.hasTag
getTag(self, key) == Get(self.tags, toLowerCase(key))
hasTag(self, key, value) ==
  LET tagValue == Get(self.tags, toLowerCase(key))
  IN  tagValue # Undefined /\ tagValue = value

\* new TaggedUrnBuilder(prefix): the builder, as its prefix and the reference
\* of its tags.
TaggedUrnBuilder_new(mem, prefix) ==
  LET tags == NewObject(mem, EmptyTags)
  IN  [mem |-> tags, builder |-> [prefix |-> toLowerCase(prefix), tags |-> Len(tags.heap)]]

\* TaggedUrnBuilder.tag: writes into the builder's own tags and returns the builder.
TaggedUrnBuilder_tag(mem, this, key, value) ==
  IF value = << >>
  THEN Outcome(mem, Throw("EMPTY_TAG", 0))
  ELSE Outcome(SetProperty(mem, this.tags, toLowerCase(key), value), Return(0))

\* TaggedUrnBuilder.build
TaggedUrnBuilder_build(mem, this) ==
  IF Len(ObjectKeys(mem.heap[this.tags])) = 0
  THEN Outcome(mem, Throw("INVALID_FORMAT", 0))
  ELSE ReturnNew(TaggedUrn_new(mem, this.prefix, this.tags))

\* TaggedUrnBuilder.buildAllowEmpty
TaggedUrnBuilder_buildAllowEmpty(mem, this) ==
  ReturnNew(TaggedUrn_new(mem, this.prefix, this.tags))

(***************************************************************************)
(* State                                                                   *)
(***************************************************************************)

VARIABLES
  a,        \* a descriptor held by the caller (the receiver of the calls)
  b,        \* a second descriptor held by the caller (the argument of the calls)
  out,      \* the last call made on a and b since they were last replaced, and its outcome
  urns,     \* the array of candidates handed to UrnMatcher
  request,  \* the request handed to UrnMatcher
  found,    \* the last UrnMatcher call on urns and request, and its outcome
  input,    \* the text handed to fromString: its prefix part and its tags
  parsed,   \* the outcome of fromString on the input
  canon,    \* parsed.toString()
  second,   \* the outcome of fromString on a text derived from the input or from canon
  canon2,   \* second.toString()
  urns2,    \* the second array handed to UrnMatcher.areCompatible (urns is the first)
  mem,      \* the tag objects and TaggedUrn objects created so far
  builder,  \* the TaggedUrnBuilder the caller holds, if any
  call,     \* the last method called on an object of mem or on the builder, and its outcome
  run       \* the call of fromString in progress: its locals and where it stands

matchVars == << a, b, out >>
matcherVars == << urns, request, found >>
parseVars == << input, parsed, canon, second, canon2, run >>
objectVars == << mem, builder, call >>
vars == << matchVars, matcherVars, parseVars, urns2, objectVars >>

NoCall == [op |-> "none", res |-> Return(FALSE)]

\* Arguments the caller passes.
PrefixArgsA == { << "P" >> }
PrefixArgsB == { << "p" >>, << "q" >> }
KeyArgs == { << "K" >>, << "m" >> }
ValueArgsA == { Star, Question, Bang, << "v" >>, << "V" >>, << >> }
ValueArgsB == { Star, Question, Bang, << "v" >> }

(***************************************************************************)
(* Calls on two descriptors                                                *)
(***************************************************************************)

NoSearch == [op |-> "none", given |-> << >>, res |-> Return(Null)]

\* fromString / toString not called: no outcome, no string.
NotCalled == Throw("NOT_CALLED", NoUrn)
NoString == << "undefined" >>
NoSecond == [of |-> "none", res |-> NotCalled]

\* No text is being parsed.
NoRun ==
  [phase |-> "idle", prefix |-> << >>, chars |-> << >>, pos |-> 0,
   cfg |-> ParserStart, res |-> NotCalled]

ParseIdle ==
  /\ run = NoRun
  /\ input = [head |-> << >>, segments |-> << >>]
  /\ parsed = NotCalled
  /\ canon = NoString
  /\ second = NoSecond
  /\ canon2 = NoString

\* No UrnMatcher call is in play.
MatcherIdle ==
  /\ urns = << >>
  /\ request = NoUrn
  /\ found = NoSearch

\* No builder is held; no method was called on an object.
NoBuilder == [prefix |-> << >>, tags |-> 0]
NoMethod == [op |-> "none", this |-> 0, key |-> << >>, value |-> << >>, res |-> Return(0)]

\* No object exists and no second array is in play.
ObjectsIdle ==
  /\ urns2 = << >>
  /\ mem = NoMem
  /\ builder = NoBuilder
  /\ call = NoMethod

InitMatch ==
  /\ a \in { empty(p) : p \in PrefixArgsA }
  /\ b \in { empty(p) : p \in PrefixArgsB }
  /\ out = NoCall
  /\ MatcherIdle
  /\ ParseIdle
  /\ ObjectsIdle

\* a = a.withTag(key, value): a keeps its value when withTag throws.
WithTagA ==
  \E key \in KeyArgs, value \in ValueArgsA :
    LET r == withTag(a, key, value)
    IN  /\ a' = IF r.code = "OK" THEN r.val ELSE a
        /\ out' = IF r.code = "OK" THEN NoCall ELSE [op |-> "withTag", res |-> Throw(r.code, FALSE)]
        /\ UNCHANGED << b, matcherVars, parseVars, urns2, objectVars >>

WithTagB ==
  \E key \in KeyArgs, value \in ValueArgsB :
    LET r == withTag(b, key, value)
    IN  /\ b' = IF r.code = "OK" THEN r.val ELSE b
        /\ out' = IF r.code = "OK" THEN NoCall ELSE [op |-> "withTag", res |-> Throw(r.code, FALSE)]
        /\ UNCHANGED << a, matcherVars, parseVars, urns2, objectVars >>

\* a = a.withoutTag(key)
WithoutTagA ==
  \E key \in KeyArgs :
    /\ a' = withoutTag(a, key).val
    /\ out' = NoCall
    /\ UNCHANGED << b, matcherVars, parseVars, urns2, objectVars >>

\* a.conformsTo(b)
ConformsTo ==
  /\ out' = [op |-> "conformsTo", res |-> conformsTo(a, b)]
  /\ UNCHANGED << a, b, matcherVars, parseVars, urns2, objectVars >>

\* a.accepts(b)
Accepts ==
  /\ out' = [op |-> "accepts", res |-> accepts(a, b)]
  /\ UNCHANGED << a, b, matcherVars, parseVars, urns2, objectVars >>

\* a.specificity()
Specificity ==
  /\ out' = [op |-> "specificity", res |-> Return(specificity(a))]
  /\ UNCHANGED << a, b, matcherVars, parseVars, urns2, objectVars >>

\* a.specificityTuple()
SpecificityTuple ==
  /\ out' = [op |-> "specificityTuple", res |-> Return(specificityTuple(a))]
  /\ UNCHANGED << a, b, matcherVars, parseVars, urns2, objectVars >>

\* a.isMoreSpecificThan(b)
IsMoreSpecificThan ==
  /\ out' = [op |-> "isMoreSpecificThan", res |-> isMoreSpecificThan(a, b)]
  /\ UNCHANGED << a, b, matcherVars, parseVars, urns2, objectVars >>

\* a.merge(b)
Merge ==
  /\ out' = [op |-> "merge", res |-> merge(a, b)]
  /\ UNCHANGED << a, b, matcherVars, parseVars, urns2, objectVars >>

NextMatch ==
  \/ WithTagA
  \/ WithTagB
  \/ WithoutTagA
  \/ ConformsTo
  \/ Accepts
  \/ Specificity
  \/ SpecificityTuple
  \/ IsMoreSpecificThan
  \/ Merge

SpecMatch == InitMatch /\ [][NextMatch]_vars

\* a.isCompatibleWith(b)
IsCompatibleWith ==
  /\ out' = [op |-> "isCompatibleWith", res |-> isCompatibleWith(a, b)]
  /\ UNCHANGED << a, b, matcherVars, parseVars, urns2, objectVars >>

\* b.isCompatibleWith(a)
IsCompatibleWithReversed ==
  /\ out' = [op |-> "isCompatibleWithReversed", res |-> isCompatibleWith(b, a)]
  /\ UNCHANGED << a, b, matcherVars, parseVars, urns2, objectVars >>

NextCompat ==
  \/ WithTagA
  \/ WithTagB
  \/ WithoutTagA
  \/ IsCompatibleWith
  \/ IsCompatibleWithReversed

SpecCompat == InitMatch /\ [][NextCompat]_vars

\* a.isEquivalent(b)
IsEquivalent ==
  /\ out' = [op |-> "isEquivalent", res |-> isEquivalent(a, b)]
  /\ UNCHANGED << a, b, matcherVars, parseVars, urns2, objectVars >>

\* a.isComparable(b)
IsComparable ==
  /\ out' = [op |-> "isComparable", res |-> isComparable(a, b)]
  /\ UNCHANGED << a, b, matcherVars, parseVars, urns2, objectVars >>

\* a.conformsTo(a)
ConformsToSelf ==
  /\ out' = [op |-> "conformsToSelf", res |-> conformsTo(a, a)]
  /\ UNCHANGED << a, b, matcherVars, parseVars, urns2, objectVars >>

NextRelations ==
  \/ WithTagA
  \/ WithTagB
  \/ WithoutTagA
  \/ IsEquivalent
  \/ IsComparable
  \/ ConformsToSelf

SpecRelations == InitMatch /\ [][NextRelations]_vars

(***************************************************************************)
(* Calls on UrnMatcher                                                     *)
(***************************************************************************)

\* Longest array of candidates.
MaxUrns == 3

\* No call on two descriptors is in play.
MatchIdle ==
  /\ a = NoUrn
  /\ b = NoUrn
  /\ out = NoCall

\* empty(prefix).withTag(k1, v1).withTag(k2, v2)
Urn1(prefix, k1, v1) == withTag(empty(prefix), k1, v1).val
Urn2(prefix, k1, v1, k2, v2) == withTag(Urn1(prefix, k1, v1), k2, v2).val

\* Descriptors the caller hands to UrnMatcher.
UrnArgs ==
  { empty(<< "p" >>),
    Urn1(<< "p" >>, << "k" >>, Question),
    Urn1(<< "p" >>, << "k" >>, Star),
    Urn1(<< "p" >>, << "k" >>, << "v" >>),
    Urn1(<< "p" >>, << "k" >>, << "w" >>),
    Urn2(<< "p" >>, << "m" >>, Bang, << "k" >>, Star),
    Urn2(<< "p" >>, << "k" >>, << "v" >>, << "m" >>, << "w" >>),
    empty(<< "q" >>) }

RequestArgs ==
  { empty(<< "p" >>),
    Urn1(<< "p" >>, << "k" >>, << "v" >>),
    Urn1(<< "p" >>, << "k" >>, Star),
    Urn1(<< "p" >>, << "m" >>, Bang) }

InitMatcher ==
  /\ urns = << >>
  /\ request \in RequestArgs
  /\ found = NoSearch
  /\ MatchIdle
  /\ ParseIdle
  /\ ObjectsIdle

\* urns.push(urn), by the caller
Push ==
  \E urn \in UrnArgs :
    /\ Len(urns) < MaxUrns
    /\ urns' = Append(urns, urn)
    /\ found' = NoSearch
    /\ UNCHANGED << request, matchVars, parseVars, urns2, objectVars >>

\* UrnMatcher.findBestMatch(urns, request)
FindBestMatch ==
  /\ found' = [op |-> "findBestMatch", given |-> urns, res |-> findBestMatch(urns, request)]
  /\ UNCHANGED << urns, request, matchVars, parseVars, urns2, objectVars >>

\* UrnMatcher.findAllMatches(urns, request)
FindAllMatches ==
  LET r == findAllMatches(urns, request)
  IN  /\ found' = [op |-> "findAllMatches", given |-> urns, res |-> r.res]
      /\ urns' = r.urns
      /\ UNCHANGED << request, matchVars, parseVars, urns2, objectVars >>

NextMatcher ==
  \/ Push
  \/ FindBestMatch
  \/ FindAllMatches

SpecMatcher == InitMatcher /\ [][NextMatcher]_vars

\* Longest array handed to areCompatible.
MaxListLen == 2

\* Descriptors the caller puts in the two arrays.
ListArgs ==
  { empty(<< "p" >>),
    Urn1(<< "p" >>, << "k" >>, << "v" >>),
    Urn1(<< "p" >>, << "m" >>, << "w" >>),
    Urn1(<< "p" >>, << "k" >>, Star),
    Urn1(<< "p" >>, << "k" >>, Bang),
    empty(<< "q" >>) }

InitLists ==
  /\ urns = << >>
  /\ request = NoUrn
  /\ found = NoSearch
  /\ MatchIdle
  /\ ParseIdle
  /\ ObjectsIdle

\* urns1.push(urn), by the caller
PushFirst ==
  \E urn \in ListArgs :
    /\ Len(urns) < MaxListLen
    /\ urns' = Append(urns, urn)
    /\ found' = NoSearch
    /\ UNCHANGED << request, urns2, matchVars, parseVars, objectVars >>

\* urns2.push(urn), by the caller
PushSecond ==
  \E urn \in ListArgs :
    /\ Len(urns2) < MaxListLen
    /\ urns2' = Append(urns2, urn)
    /\ found' = NoSearch
    /\ UNCHANGED << request, urns, matchVars, parseVars, objectVars >>

\* UrnMatcher.areCompatible(urns1, urns2)
AreCompatible ==
  /\ found' = [op |-> "areCompatible", given |-> urns, res |-> areCompatible(urns, urns2)]
  /\ UNCHANGED << request, urns, urns2, matchVars, parseVars, objectVars >>

\* UrnMatcher.areCompatible(urns2, urns1)
AreCompatibleReversed ==
  /\ found' = [op |-> "areCompatibleReversed", given |-> urns2,
               res |-> areCompatible(urns2, urns)]
  /\ UNCHANGED << request, urns, urns2, matchVars, parseVars, objectVars >>

NextLists ==
  \/ PushFirst
  \/ PushSecond
  \/ AreCompatible
  \/ AreCompatibleReversed

SpecLists == InitLists /\ [][NextLists]_vars

(***************************************************************************)
(* Parsing and serializing                                                 *)
(***************************************************************************)

\* Most tags (";"-separated segments) in an input.
MaxSegments == 3

\* The text before the tags, up to and including the first colon.
HeadArgs == { << "p", ":" >>, << "P", "r", ":" >> }

\* The tags a caller writes: bare key, unquoted and quoted values, sentinels,
\* escapes, an empty segment and a tag without a value.
SegmentArgs ==
  { << "a" >>,
    << "B", "=", "C" >>,
    << "b", "=", "\"", "C", " ", "d", "\"" >>,
    << "c", "=", "\"", "#", "\"" >>,
    << "c", "=", "?" >>,
    << "a", "=", "\"", "x", ";", "\\", "\"", "\"" >>,
    << "A", "=", "!" >>,
    << "d", "=" >>,
    << >> }

\* The string the caller passes for an input.
InputString(in) == in.head \o join(in.segments)

\* The orders in which n tags can be written.
TagOrders(n) == { f \in [1..n -> 1..n] : \A i, j \in 1..n : f[i] = f[j] => i = j }

InitParse ==
  /\ input \in { [head |-> h, segments |-> << >>] : h \in HeadArgs }
  /\ parsed = NotCalled
  /\ canon = NoString
  /\ second = NoSecond
  /\ canon2 = NoString
  /\ run = NoRun
  /\ MatchIdle
  /\ MatcherIdle
  /\ ObjectsIdle

\* The caller appends a tag to the text it is going to parse.
AddSegment ==
  \E seg \in SegmentArgs :
    /\ parsed = NotCalled
    /\ Len(input.segments) < MaxSegments
    /\ input' = [input EXCEPT !.segments = Append(@, seg)]
    /\ UNCHANGED << parsed, canon, second, canon2, matchVars, matcherVars, urns2, objectVars, run >>

\* parsed = TaggedUrn.fromString(input)
FromStringInput ==
  /\ parsed = NotCalled
  /\ parsed' = fromString(InputString(input))
  /\ UNCHANGED << input, canon, second, canon2, matchVars, matcherVars, urns2, objectVars, run >>

\* canon = parsed.toString()
ToStringParsed ==
  /\ parsed.code = "OK"
  /\ canon = NoString
  /\ canon' = toString(parsed.val)
  /\ UNCHANGED << input, parsed, second, canon2, matchVars, matcherVars, urns2, objectVars, run >>

\* second = TaggedUrn.fromString(canon)
FromStringCanon ==
  /\ canon # NoString
  /\ second = NoSecond
  /\ second' = [of |-> "canon", res |-> fromString(canon)]
  /\ UNCHANGED << input, parsed, canon, canon2, matchVars, matcherVars, urns2, objectVars, run >>

\* second = TaggedUrn.fromString(input.toLowerCase())
FromStringLowercased ==
  /\ parsed # NotCalled
  /\ second = NoSecond
  /\ second' = [of |-> "lowercased", res |-> fromString(toLowerCase(InputString(input)))]
  /\ UNCHANGED << input, parsed, canon, canon2, matchVars, matcherVars, urns2, objectVars, run >>

\* second = TaggedUrn.fromString(the input with its tags in another order)
FromStringPermuted ==
  \E f \in TagOrders(Len(input.segments)) :
    /\ parsed # NotCalled
    /\ second = NoSecond
    /\ f # [i \in 1..Len(input.segments) |-> i]
    /\ second' = [of |-> "permuted",
                  res |-> fromString(input.head
                                       \o join([i \in 1..Len(input.segments) |-> input.segments[f[i]]]))]
    /\ UNCHANGED << input, parsed, canon, canon2, matchVars, matcherVars, urns2, objectVars, run >>

\* canon2 = second.toString()
ToStringSecond ==
  /\ second.res.code = "OK"
  /\ canon2 = NoString
  /\ canon2' = toString(second.res.val)
  /\ UNCHANGED << input, parsed, canon, second, matchVars, matcherVars, urns2, objectVars, run >>

NextParse ==
  \/ AddSegment
  \/ FromStringInput
  \/ ToStringParsed
  \/ FromStringCanon
  \/ FromStringLowercased
  \/ FromStringPermuted
  \/ ToStringSecond

SpecParse == InitParse /\ [][NextParse]_vars

(***************************************************************************)
(* One call of fromString, statement by statement                          *)
(***************************************************************************)

\* Most tags (";"-separated segments) in a text handed to the parser.
MaxParserSegments == 2

\* What the caller writes before the tags: a prefix and its colon, in lower
\* and upper case, nothing at all, a leading space, no colon, an empty prefix,
\* and prefixes that hold a space or an equals sign.
ParserHeadArgs ==
  { << "p", ":" >>,
    << "P", "r", ":" >>,
    << >>,
    << " ", "p", ":" >>,
    << "p" >>,
    << " ", "p" >>,
    << ":" >>,
    << "p", " ", "q", ":" >>,
    << "p", "=", ":" >> }

\* The tags the caller writes: bare keys, unquoted and quoted values, the
\* sentinels bare and quoted, missing keys and values, escapes, quotes left
\* open, a numeric key, a key that is a member of Object.prototype, and a
\* space at the end.
ParserSegmentArgs ==
  { << "a" >>,
    << "A", "=", "b" >>,
    << "a", "=", "\"", "B", " ", "c", "\"" >>,
    << "a", "=", "*" >>,
    << "k", "=" >>,
    << "k", "=", "\"", "\"" >>,
    << "=", "v" >>,
    << >>,
    ProtoKey \o << "=", "x" >>,
    ProtoKey,
    << "k", "=", "\"", "*", "\"" >>,
    << "k", "=", "\"", "?", "\"" >>,
    << "k", "=", "\"", "!", "\"" >>,
    << "q", "=", "\"", "x", "\\", "\"", ";", "\\", "\\", "\"" >>,
    << "q", "=", "\"", "x", "\\", "n", "\"" >>,
    << "q", "=", "\"", "x" >>,
    << "q", "=", "\"", "x", "\\" >>,
    << "q", "=", "\"", "x", "\"", "y" >>,
    << "1", "=", "v" >>,
    << "a", "=", "b", " " >> }

\* The sequences of at most n elements of S.
RECURSIVE SeqsUpTo(_, _)
SeqsUpTo(S, n) ==
  IF n = 0 THEN { << >> }
  ELSE LET shorter == SeqsUpTo(S, n - 1)
       IN  shorter \cup { Append(q, x) : q \in { r \in shorter : Len(r) = n - 1 }, x \in S }

\* The pre-checks with the search for the colon made before the check for
\* whitespace.
enter_colonFirst(s) ==
  IF s = << >>
  THEN [NoRun EXCEPT !.phase = "done", !.res = Throw("INVALID_FORMAT", NoUrn)]
  ELSE IF indexOfColon(s) = 0
  THEN [NoRun EXCEPT !.phase = "done", !.res = Throw("MISSING_PREFIX", NoUrn)]
  ELSE IF indexOfColon(s) = 1
  THEN [NoRun EXCEPT !.phase = "done", !.res = Throw("EMPTY_PREFIX", NoUrn)]
  ELSE IF IsWhitespace(s[1]) \/ IsWhitespace(s[Len(s)])
  THEN [NoRun EXCEPT !.phase = "done", !.res = Throw("WHITESPACE_IN_INPUT", NoUrn)]
  ELSE LET prefix == toLowerCase(SubSeq(s, 1, indexOfColon(s) - 1))
           tagsPart == SubSeq(s, indexOfColon(s) + 1, Len(s))
       IN  IF tagsPart = << >> \/ tagsPart = << ";" >>
           THEN [NoRun EXCEPT !.phase = "done", !.prefix = prefix,
                              !.res = Return(TaggedUrn(prefix, EmptyTags))]
           ELSE [NoRun EXCEPT !.phase = "loop", !.prefix = prefix, !.chars = tagsPart]

\* The statements of fromString before the loop: the outcome when it returns
\* or throws there, or the locals the loop starts with.
enter(s) ==
  IF s = << >>
  THEN [NoRun EXCEPT !.phase = "done", !.res = Throw("INVALID_FORMAT", NoUrn)]
  ELSE IF IsWhitespace(s[1]) \/ IsWhitespace(s[Len(s)])
  THEN [NoRun EXCEPT !.phase = "done", !.res = Throw("WHITESPACE_IN_INPUT", NoUrn)]
  ELSE IF indexOfColon(s) = 0
  THEN [NoRun EXCEPT !.phase = "done", !.res = Throw("MISSING_PREFIX", NoUrn)]
  ELSE IF indexOfColon(s) = 1
  THEN [NoRun EXCEPT !.phase = "done", !.res = Throw("EMPTY_PREFIX", NoUrn)]
  ELSE LET prefix == toLowerCase(SubSeq(s, 1, indexOfColon(s) - 1))
           tagsPart == SubSeq(s, indexOfColon(s) + 1, Len(s))
       IN  IF tagsPart = << >> \/ tagsPart = << ";" >>
           THEN [NoRun EXCEPT !.phase = "done", !.prefix = prefix,
                              !.res = Return(TaggedUrn(prefix, EmptyTags))]
           ELSE [NoRun EXCEPT !.phase = "loop", !.prefix = prefix, !.chars = tagsPart]

\* The loop whose "continue" on an empty segment comes before any pos++.
iterate_continueKeepsPos(r) ==
  LET next == step(r.cfg, r.chars[r.pos + 1])
  IN  IF next.error # "OK"
      THEN [r EXCEPT !.phase = "done", !.cfg = next, !.res = Throw(next.error, NoUrn)]
      ELSE IF r.cfg.state = "EXPECTING_KEY" /\ r.chars[r.pos + 1] = ";"
      THEN r
      ELSE [r EXCEPT !.cfg = next, !.pos = r.pos + 1]

\* One iteration of the while loop: chars[pos] is handled and pos++ runs,
\* unless the iteration throws.
iterate(r) ==
  LET next == step(r.cfg, r.chars[r.pos + 1])
  IN  IF next.error # "OK"
      THEN [r EXCEPT !.phase = "done", !.cfg = next, !.res = Throw(next.error, NoUrn)]
      ELSE [r EXCEPT !.cfg = next, !.pos = r.pos + 1]

\* The loop condition has failed: the switch on the final state and the return.
finish(r) ==
  LET final == endOfInput(r.cfg)
  IN  IF final.error # "OK"
      THEN [r EXCEPT !.phase = "done", !.cfg = final, !.res = Throw(final.error, NoUrn)]
      ELSE [r EXCEPT !.phase = "done", !.cfg = final,
                     !.res = Return(TaggedUrn(r.prefix, final.tags))]

InitParser ==
  /\ input \in { [head |-> h, segments |-> segs] :
                   h \in ParserHeadArgs, segs \in SeqsUpTo(ParserSegmentArgs, MaxParserSegments) }
  /\ parsed = NotCalled
  /\ canon = NoString
  /\ second = NoSecond
  /\ canon2 = NoString
  /\ run = NoRun
  /\ MatchIdle
  /\ MatcherIdle
  /\ ObjectsIdle

\* TaggedUrn.fromString(input) is called and runs up to the loop.
FromStringEnter ==
  /\ run.phase = "idle"
  /\ run' = enter(InputString(input))
  /\ UNCHANGED << input, parsed, canon, second, canon2, matchVars, matcherVars, urns2, objectVars >>

\* while (pos < chars.length) { ... }
FromStringIterate ==
  /\ run.phase = "loop"
  /\ run.pos < Len(run.chars)
  /\ run' = iterate(run)
  /\ UNCHANGED << input, parsed, canon, second, canon2, matchVars, matcherVars, urns2, objectVars >>

\* The end of the input has been reached.
FromStringFinish ==
  /\ run.phase = "loop"
  /\ run.pos = Len(run.chars)
  /\ run' = finish(run)
  /\ UNCHANGED << input, parsed, canon, second, canon2, matchVars, matcherVars, urns2, objectVars >>

NextParser ==
  \/ FromStringEnter
  \/ FromStringIterate
  \/ FromStringFinish

SpecParser == InitParser /\ [][NextParser]_vars

\* A call of fromString is not suspended: it runs until it returns or throws.
SpecParserLive == SpecParser /\ WF_vars(NextParser)

(***************************************************************************)
(* Calls on descriptor and builder objects                                 *)
(***************************************************************************)

\* Most TaggedUrn objects created.
MaxDescs == 3

\* Arguments the caller passes: any string is a key or a value.
ObjectPrefixArgs == { << "P" >>, << "q" >> }
ObjectKeyArgs == { << "K" >>, << "m" >>, << >>, << "1" >> }
ObjectValueArgs == { << "v" >>, Star, Question, << >> }
SubsetArgs == { << >>, << << "K" >> >>, << << "m" >>, << "k" >> >> }
TextArgs ==
  { << "p", ":", "k", "=", "v", ";", "M" >>,
    << "P", ":", "m", "=", "?" >>,
    << "p", ":", "k", "=" >>,
    << "p", ":", "k", "=", "\"", "\"" >>,
    << "p", ":", "k", "=", ";", "m" >> }

\* Arguments of the calls when a builder is in play as well.
BuilderPrefixArgs == { << "P" >> }
BuilderKeyArgs == { << "K" >> }
BuilderValueArgs == { << "v" >>, Star, << >> }
PublicKeyArgs == { << "K" >>, << "1" >> }
PublicValueArgs == { << "v" >>, Star, << >> }
PublicSubsetArgs == { << >>, << << "K" >> >> }

InitObjects ==
  /\ mem = NoMem
  /\ builder = NoBuilder
  /\ call = NoMethod
  /\ urns2 = << >>
  /\ MatchIdle
  /\ MatcherIdle
  /\ ParseIdle

\* The caller holds every TaggedUrn object created so far.
Held == 1..Len(mem.descs)

\* The step a method call with the given outcome makes.
Called(op, this, key, value, outcome) ==
  /\ outcome.res.code = "OK" => Len(outcome.mem.descs) <= MaxDescs
  /\ mem' = outcome.mem
  /\ call' = [op |-> op, this |-> this, key |-> key, value |-> value, res |-> outcome.res]

\* TaggedUrn.empty(prefix)
CallEmpty ==
  \E prefix \in ObjectPrefixArgs :
    /\ Called("empty", 0, << >>, << >>, TaggedUrn_empty(mem, prefix))
    /\ UNCHANGED << builder, urns2, matchVars, matcherVars, parseVars >>

\* TaggedUrn.fromString(s): call.key holds s.
CallFromString ==
  \E s \in TextArgs :
    /\ Called("fromString", 0, s, << >>, TaggedUrn_fromString(mem, s))
    /\ UNCHANGED << builder, urns2, matchVars, matcherVars, parseVars >>

\* d.withTag(key, value)
CallWithTag(keys, values) ==
  \E this \in Held, key \in keys, value \in values :
    /\ Called("withTag", this, key, value, TaggedUrn_withTag(mem, this, key, value))
    /\ UNCHANGED << builder, urns2, matchVars, matcherVars, parseVars >>

\* d.withoutTag(key)
CallWithoutTag(keys) ==
  \E this \in Held, key \in keys :
    /\ Called("withoutTag", this, key, << >>, TaggedUrn_withoutTag(mem, this, key))
    /\ UNCHANGED << builder, urns2, matchVars, matcherVars, parseVars >>

\* d.withWildcardTag(key)
CallWithWildcardTag(keys) ==
  \E this \in Held, key \in keys :
    /\ Called("withWildcardTag", this, key, << >>, TaggedUrn_withWildcardTag(mem, this, key))
    /\ UNCHANGED << builder, urns2, matchVars, matcherVars, parseVars >>

\* d.subset(keys): call.key holds keys.
CallSubset(lists) ==
  \E this \in Held, keys \in lists :
    /\ Called("subset", this, keys, << >>, TaggedUrn_subset(mem, this, keys))
    /\ UNCHANGED << builder, urns2, matchVars, matcherVars, parseVars >>

\* d.merge(other): call.value holds the index of other.
CallMerge ==
  \E this \in Held, other \in Held :
    /\ Called("merge", this, << >>, other, TaggedUrn_merge(mem, this, other))
    /\ UNCHANGED << builder, urns2, matchVars, matcherVars, parseVars >>

\* builder = new TaggedUrnBuilder(prefix)
NewBuilder ==
  \E prefix \in BuilderPrefixArgs :
    LET made == TaggedUrnBuilder_new(mem, prefix)
    IN  /\ builder = NoBuilder
        /\ mem' = made.mem
        /\ builder' = made.builder
        /\ call' = [op |-> "new TaggedUrnBuilder", this |-> 0, key |-> << >>,
                    value |-> << >>, res |-> Return(0)]
        /\ UNCHANGED << urns2, matchVars, matcherVars, parseVars >>

\* builder.tag(key, value)
BuilderTag(keys, values) ==
  \E key \in keys, value \in values :
    /\ builder # NoBuilder
    /\ Called("tag", 0, key, value, TaggedUrnBuilder_tag(mem, builder, key, value))
    /\ UNCHANGED << builder, urns2, matchVars, matcherVars, parseVars >>

\* builder.build()
BuilderBuild ==
  /\ builder # NoBuilder
  /\ Called("build", 0, << >>, << >>, TaggedUrnBuilder_build(mem, builder))
  /\ UNCHANGED << builder, urns2, matchVars, matcherVars, parseVars >>

\* builder.buildAllowEmpty()
BuilderBuildAllowEmpty ==
  /\ builder # NoBuilder
  /\ Called("buildAllowEmpty", 0, << >>, << >>, TaggedUrnBuilder_buildAllowEmpty(mem, builder))
  /\ UNCHANGED << builder, urns2, matchVars, matcherVars, parseVars >>

\* Calls on descriptors.
NextObjects ==
  \/ CallEmpty
  \/ CallFromString
  \/ CallWithTag(ObjectKeyArgs, ObjectValueArgs)
  \/ CallWithoutTag(ObjectKeyArgs)
  \/ CallWithWildcardTag(ObjectKeyArgs)
  \/ CallSubset(SubsetArgs)
  \/ CallMerge

SpecObjects == InitObjects /\ [][NextObjects]_vars

\* Every way to a descriptor: calls on descriptors and on a builder.
NextPublic ==
  \/ CallEmpty
  \/ CallFromString
  \/ CallWithTag(PublicKeyArgs, PublicValueArgs)
  \/ CallWithoutTag(PublicKeyArgs)
  \/ CallWithWildcardTag(PublicKeyArgs)
  \/ CallSubset(PublicSubsetArgs)
  \/ CallMerge
  \/ NewBuilder
  \/ BuilderTag(BuilderKeyArgs, BuilderValueArgs)
  \/ BuilderBuild
  \/ BuilderBuildAllowEmpty

SpecPublic == InitObjects /\ [][NextPublic]_vars

\* Calls on a builder alone, with two keys to add and to overwrite.
IsolationKeyArgs == { << "K" >>, << "m" >> }
IsolationValueArgs == { << "v" >>, Star, << >> }

NextBuilder ==
  \/ NewBuilder
  \/ BuilderTag(IsolationKeyArgs, IsolationValueArgs)
  \/ BuilderBuild
  \/ BuilderBuildAllowEmpty

SpecBuilder == InitObjects /\ [][NextBuilder]_vars

(***************************************************************************)
(* Everything a caller can do                                              *)
(***************************************************************************)

Init == InitMatch \/ InitMatcher \/ InitParse \/ InitParser \/ InitLists \/ InitObjects

Next ==
  NextMatch \/ NextCompat \/ NextRelations \/ NextMatcher \/ NextLists \/ NextParse \/ NextParser \/ NextObjects \/ NextPublic \/ NextBuilder

Spec == Init /\ [][Next]_vars

(***************************************************************************)
(* Properties of the matching engine and the scorer                        *)
(***************************************************************************)

AllKeys(x, y) == KeySet(x.tags) \cup KeySet(y.tags)

IsSentinel(v) == v \in { Star, Question, Bang }

\* The per-key cell of the truth table: i is the instance's value for the key,
\* p the pattern's, Undefined standing for an absent key.
CellOK(i, p) ==
  \/ p \in { Undefined, Question }
  \/ i = Question
  \/ p = Bang /\ i \in { Undefined, Bang }
  \/ p = Star /\ i \notin { Undefined, Bang }
  \/ p \notin { Undefined, Question, Bang, Star } /\ (i = Star \/ i = p)

C2_AcceptsMirrorsConformsTo ==
  out.op = "accepts" => out.res = conformsTo(b, a)

\* a.accepts(b) answered true for a pair on which the opposite direction,
\* a.conformsTo(b), is false.
C2_Witness ==
  /\ out.op = "accepts"
  /\ out.res = Return(TRUE)
  /\ conformsTo(a, b) = Return(FALSE)

\* C4: when the prefixes differ, conformsTo, accepts, isMoreSpecificThan and
\* merge all raise PREFIX_MISMATCH, whatever the tags are.
C4_PrefixMismatchRaised ==
  (a.prefix # b.prefix /\ out.op \in { "conformsTo", "accepts", "isMoreSpecificThan", "merge" }) =>
    out.res.code = "PREFIX_MISMATCH"

\* merge was called on two descriptors without tags and with different prefixes.
C4_Witness ==
  /\ out.op = "merge"
  /\ a.prefix # b.prefix
  /\ a.tags = << >>
  /\ b.tags = << >>
  /\ out.res.code = "PREFIX_MISMATCH"

NumExact(x) == Cardinality({ key \in KeySet(x.tags) : ~IsSentinel(Get(x.tags, key)) })
NumAny(x) == Cardinality({ key \in KeySet(x.tags) : Get(x.tags, key) = Star })
NumNot(x) == Cardinality({ key \in KeySet(x.tags) : Get(x.tags, key) = Bang })

\* C5: specificity() is 3E + 2A + N and specificityTuple() is [E, A, N], for E
\* exact values, A must-have-any tags and N must-not-have tags.
C5_SpecificityIsWeightedSum ==
  /\ out.op = "specificity" =>
       out.res = Return(3 * NumExact(a) + 2 * NumAny(a) + NumNot(a))
  /\ out.op = "specificityTuple" =>
       out.res = Return(<< NumExact(a), NumAny(a), NumNot(a) >>)

\* specificity() was called on a descriptor holding one must-have-any tag and
\* one must-not-have tag and returned 3.
C5_Witness ==
  /\ out.op = "specificity"
  /\ NumAny(a) = 1
  /\ NumNot(a) = 1
  /\ Len(a.tags) = 2
  /\ out.res = Return(3)

(***************************************************************************)
(* Properties of UrnMatcher                                                *)
(***************************************************************************)

SamePrefixCall ==
  \A i \in 1..Len(found.given) : found.given[i].prefix = request.prefix

\* Indices of the candidates that conform to the request.
Conforming == { i \in 1..Len(found.given) : conformsTo(found.given[i], request) = Return(TRUE) }

\* Indices of the conforming candidates of maximum specificity.
Best ==
  { i \in Conforming :
      \A j \in Conforming : specificity(found.given[j]) <= specificity(found.given[i]) }

\* C6: on a same-prefix call findBestMatch returns null iff no candidate
\* conforms, and otherwise the earliest conforming candidate of maximum
\* specificity.
C6_FindBestMatchIsFirstMostSpecific ==
  (found.op = "findBestMatch" /\ SamePrefixCall) =>
    /\ found.res.code = "OK"
    /\ (found.res.val = Null) <=> (Conforming = { })
    /\ Conforming # { } =>
         found.res.val = found.given[CHOOSE i \in Best : \A j \in Best : i <= j]

\* findBestMatch chose between two different conforming candidates of the same,
\* maximum, specificity 0 and returned the first.
C6_Witness ==
  /\ found.op = "findBestMatch"
  /\ SamePrefixCall
  /\ Cardinality(Best) >= 2
  /\ \E i, j \in Best : found.given[i] # found.given[j]
  /\ specificity(found.res.val) = 0
  /\ found.res.val = found.given[1]

\* C7: on a same-prefix call findAllMatches returns exactly the conforming
\* candidates, by non-increasing specificity, equal specificities in input
\* order, and leaves the input array as it was.
C7_FindAllMatchesIsStableFilterSort ==
  (found.op = "findAllMatches" /\ SamePrefixCall) =>
    /\ found.res.code = "OK"
    /\ urns = found.given
    /\ Len(found.res.val) = Cardinality(Conforming)
    /\ \E f \in [1..Len(found.res.val) -> Conforming] :
         /\ \A j \in 1..Len(found.res.val) : found.res.val[j] = found.given[f[j]]
         /\ \A j, l \in 1..Len(found.res.val) :
              j < l =>
                \/ specificity(found.given[f[j]]) > specificity(found.given[f[l]])
                \/ /\ specificity(found.given[f[j]]) = specificity(found.given[f[l]])
                   /\ f[j] < f[l]

\* findAllMatches dropped a candidate, moved a later candidate to the front and
\* kept two different candidates of equal specificity in input order.
C7_Witness ==
  /\ found.op = "findAllMatches"
  /\ SamePrefixCall
  /\ Len(found.given) = 3
  /\ Len(found.res.val) = 2
  /\ found.res.val # found.given
  /\ \E j \in 1..2 : found.res.val[j] = found.given[3]
  /\ Cardinality({ i \in Conforming : specificity(found.given[i]) = 3 }) = 2

(***************************************************************************)
(* Properties of the parser and the serializer                             *)
(***************************************************************************)

\* C3: round trip: the canonical string of a parsed descriptor is accepted by
\* fromString and parses to an equal descriptor, and its own canonical string
\* is the same string.
C3_RoundTrip ==
  second.of = "canon" =>
    /\ second.res.code = "OK"
    /\ equals(second.res.val, parsed.val)
    /\ canon2 # NoString => canon2 = canon

\* The pieces of a serialized tag list between the ";" that stand outside
\* quotes (inside quotes a backslash escapes the next character).
RECURSIVE SplitOutsideQuotes(_, _, _, _, _)
SplitOutsideQuotes(str, i, inQuote, cur, acc) ==
  IF i > Len(str) THEN Append(acc, cur)
  ELSE IF inQuote /\ str[i] = "\\" /\ i < Len(str)
  THEN SplitOutsideQuotes(str, i + 2, TRUE, cur \o << str[i], str[i + 1] >>, acc)
  ELSE IF str[i] = "\""
  THEN SplitOutsideQuotes(str, i + 1, ~inQuote, Append(cur, str[i]), acc)
  ELSE IF ~inQuote /\ str[i] = ";"
  THEN SplitOutsideQuotes(str, i + 1, FALSE, << >>, Append(acc, cur))
  ELSE SplitOutsideQuotes(str, i + 1, inQuote, Append(cur, str[i]), acc)

\* The key a serialized tag starts with: the text before its first "=".
KeyOfPart(part) ==
  IF \E i \in 1..Len(part) : part[i] = "="
  THEN SubSeq(part, 1, (CHOOSE i \in 1..Len(part) :
                          part[i] = "=" /\ \A j \in 1..(i - 1) : part[j] # "=") - 1)
  ELSE part

\* str is laid out as the canonical string of descriptor d.
CanonicalLayout(str, d) ==
  LET n == Len(d.prefix)
      body == SubSeq(str, n + 2, Len(str))
      parts == SplitOutsideQuotes(body, 1, FALSE, << >>, << >>)
  IN  /\ Len(str) >= n + 1
      /\ SubSeq(str, 1, n + 1) = d.prefix \o << ":" >>
      /\ IF d.tags = << >> THEN body = << >>
         ELSE /\ Len(parts) = Len(d.tags)
              /\ \A i \in 1..Len(parts) : parts[i] # << >>
              /\ { KeyOfPart(parts[i]) : i \in 1..Len(parts) } = KeySet(d.tags)
              /\ \A i, j \in 1..Len(parts) :
                   i < j => StrLess(KeyOfPart(parts[i]), KeyOfPart(parts[j]))

\* C8: toString renders a descriptor without tags as "prefix:", and otherwise
\* every tag once, keys strictly ascending, separated by single ";" with none
\* trailing, whatever the order the tags were parsed in.
C8_CanonicalStringSorted ==
  /\ canon # NoString => CanonicalLayout(canon, parsed.val)
  /\ canon2 # NoString => CanonicalLayout(canon2, second.res.val)

\* toString was called on a descriptor whose three tags were parsed in an order
\* that is not the ascending one.
C8_Witness ==
  /\ canon # NoString
  /\ Len(parsed.val.tags) = 3
  /\ ObjectKeys(parsed.val.tags) # SortStrings(ObjectKeys(parsed.val.tags))

HasQuote(s) == \E i \in 1..Len(s) : s[i] = "\""

HoldsUpperCase(d) ==
  \E i \in 1..Len(d.tags) : \E j \in 1..Len(d.tags[i].v) : IsUpper(d.tags[i].v[j])

\* C9: an input without a quoted value parses iff its lowercased text parses,
\* and then to an equal descriptor; a quoted value keeps its case, so an input
\* whose quoted value has an uppercase letter parses to a descriptor unequal to
\* the one its lowercased text parses to.
C9_CaseInvariant ==
  second.of = "lowercased" =>
    /\ ~HasQuote(InputString(input)) =>
         /\ (parsed.code = "OK") <=> (second.res.code = "OK")
         /\ parsed.code = "OK" => equals(parsed.val, second.res.val)
    /\ (parsed.code = "OK" /\ HoldsUpperCase(parsed.val)) =>
         /\ second.res.code = "OK"
         /\ ~equals(parsed.val, second.res.val)

\* An input without quotes, with uppercase letters in its prefix, a key and an
\* unquoted value, was parsed as written and lowercased.
C9_Witness ==
  /\ second.of = "lowercased"
  /\ ~HasQuote(InputString(input))
  /\ input.head = << "P", "r", ":" >>
  /\ \E i \in 1..Len(input.segments) : input.segments[i] = << "B", "=", "C" >>
  /\ parsed.code = "OK"
  /\ second.res.code = "OK"

\* C10: a valid input with its tags written in another order parses to an
\* equal descriptor with the identical canonical string.
C10_TagOrderIndependent ==
  (second.of = "permuted" /\ parsed.code = "OK") =>
    /\ second.res.code = "OK"
    /\ equals(second.res.val, parsed.val)
    /\ (canon # NoString /\ canon2 # NoString) => canon2 = canon

\* A valid input of three tags was parsed in two orders, the two descriptors
\* hold their tags in different orders, and both were serialized.
C10_Witness ==
  /\ second.of = "permuted"
  /\ parsed.code = "OK"
  /\ Len(parsed.val.tags) = 3
  /\ second.res.code = "OK"
  /\ second.res.val.tags # parsed.val.tags
  /\ canon # NoString
  /\ canon2 = canon

(***************************************************************************)
(* Properties of matching and scoring under added tags                     *)
(***************************************************************************)

\* The last call on a and b was op and it returned the boolean value.
Answered(op, value) ==
  /\ out.op = op
  /\ out.res.code = "OK"
  /\ out.res.val = value

\* The step replaces a by a.withTag(key, value) for a non-empty value and a
\* key for which b has no tag, and leaves b alone.
AddsTagUnknownToB ==
  /\ b' = b
  /\ \E key \in KeyArgs, value \in ValueArgsA :
       /\ value # << >>
       /\ ~hasOwnProperty(b.tags, toLowerCase(key))
       /\ a' = withTag(a, key, value).val

C13_MoreSpecificIsScoreOrder ==
  (out.op = "isMoreSpecificThan" /\ a.prefix = b.prefix) =>
    out.res = Return(3 * NumExact(a) + 2 * NumAny(a) + NumNot(a)
                     > 3 * NumExact(b) + 2 * NumAny(b) + NumNot(b))

\* isMoreSpecificThan answered true for two descriptors that hold different
\* exact values for the same key.
C13_Witness ==
  /\ Answered("isMoreSpecificThan", TRUE)
  /\ \E key \in KeySet(a.tags) \cap KeySet(b.tags) :
       /\ ~IsSentinel(Get(a.tags, key))
       /\ ~IsSentinel(Get(b.tags, key))
       /\ Get(a.tags, key) # Get(b.tags, key)

(***************************************************************************)
(* Properties of compatibility                                             *)
(***************************************************************************)

\* The per-key compatibility of two values, Undefined standing for an absent key.
CellCompatible(v1, v2) ==
  \/ v1 \in { Undefined, Question }
  \/ v2 \in { Undefined, Question }
  \/ v1 = Bang /\ v2 = Bang
  \/ v1 = Star /\ v2 # Bang
  \/ v2 = Star /\ v1 # Bang
  \/ ~IsSentinel(v1) /\ ~IsSentinel(v2) /\ v1 = v2

DescriptorsOver(prefix, values) ==
  { empty(prefix) }
    \cup { Urn1(prefix, key, v) : key \in { << "k" >>, << "m" >> }, v \in values }
    \cup { Urn2(prefix, << "k" >>, v, << "m" >>, w) : v \in values, w \in values }

\* Some descriptor among candidates conforms to both a and b.
SomeConformsToBoth(candidates) ==
  \E i \in candidates : conformsTo(i, a) = Return(TRUE) /\ conformsTo(i, b) = Return(TRUE)

AddsQuestionToA(key) ==
  /\ b' = b
  /\ ~hasOwnProperty(a.tags, toLowerCase(key))
  /\ a' = withTag(a, key, Question).val

\* The step replaces b by b.withTag(key, "?") for a key b has no tag for, and
\* leaves a alone.
AddsQuestionToB(key) ==
  /\ a' = a
  /\ ~hasOwnProperty(b.tags, toLowerCase(key))
  /\ b' = withTag(b, key, Question).val

\* conformsTo was the last call on a and b and it returned a boolean.
ConformsToAnswered == out.op = "conformsTo" /\ out.res.code = "OK"

\* Adding ? to the pattern b leaves a.conformsTo(b) as it was, and adding ? to
\* a leaves a.specificity() and a.specificityTuple() as they were.
QuestionIsAbsentInPatternAndScore(key) ==
  /\ (ConformsToAnswered /\ AddsQuestionToB(key)) => conformsTo(a', b') = out.res
  /\ (out.op = "specificity" /\ AddsQuestionToA(key)) => specificity(a') = out.res.val
  /\ (out.op = "specificityTuple" /\ AddsQuestionToA(key)) =>
       specificityTuple(a') = out.res.val

PairCompatible(x, y) ==
  \A key \in AllKeys(x, y) : CellCompatible(Get(x.tags, key), Get(y.tags, key))

\* All descriptors of the two arrays have one prefix.
OnePrefix ==
  \A x, y \in { urns[i] : i \in 1..Len(urns) } \cup { urns2[j] : j \in 1..Len(urns2) } :
    x.prefix = y.prefix

\* C16: for same-prefix arrays, areCompatible(urns1, urns2) and
\* areCompatible(urns2, urns1) both are true iff some descriptor of the first
\* array and some descriptor of the second are per-key compatible (so false
\* when an array is empty).
C16_AreCompatibleIsSomePairCompatible ==
  (found.op \in { "areCompatible", "areCompatibleReversed" } /\ OnePrefix) =>
    found.res.val = (\E i \in 1..Len(urns), j \in 1..Len(urns2) :
                       PairCompatible(urns[i], urns2[j]))

(***************************************************************************)
(* Properties of descriptor and builder objects                            *)
(***************************************************************************)

MutatorOps == { "withTag", "withoutTag", "merge", "subset", "withWildcardTag" }

\* C11: a call of withTag, withoutTag, merge, subset or withWildcardTag,
\* successful or not, leaves every existing descriptor (the receiver and the
\* argument of merge among them) with the prefix and the tags it had, and a
\* successful one returns a descriptor that did not exist before, with a tag
\* object no existing descriptor refers to.
C11_MutatorsReturnNewAndLeaveOld ==
  [][ call'.op \in MutatorOps =>
        /\ \A d \in 1..Len(mem.descs) :
             mem'.descs[d] = mem.descs[d] /\ Deref(mem', d) = Deref(mem, d)
        /\ call'.res.code = "OK" =>
             /\ call'.res.val \notin 1..Len(mem.descs)
             /\ \A d \in 1..Len(mem.descs) :
                  mem'.descs[call'.res.val].tags # mem.descs[d].tags ]_vars

\* s in upper case.
UpperCased(s) == [i \in 1..Len(s) |-> charToUpperCase(s[i])]

\* key is a legal stored key.
KeyOK(key) ==
  /\ key # << >>
  /\ \A i \in 1..Len(key) : isValidKeyChar(key[i])
  /\ ~IsNumeric(key)
  /\ key = toLowerCase(key)

\* C18: every key stored in a descriptor is non-empty, made of key characters,
\* not purely numeric and lowercase, and getTag and hasTag find its value when
\* given the key in upper case.
C18_StoredKeysAreLegal ==
  \A d \in 1..Len(mem.descs) :
    LET x == Deref(mem, d)
    IN  \A i \in 1..Len(x.tags) :
          /\ KeyOK(x.tags[i].k)
          /\ getTag(x, UpperCased(x.tags[i].k)) = x.tags[i].v
          /\ hasTag(x, UpperCased(x.tags[i].k), x.tags[i].v)

\* The texts of TextArgs with an empty value: k=, k="" and k=;m
EmptyValueTexts ==
  { << "p", ":", "k", "=" >>,
    << "p", ":", "k", "=", "\"", "\"" >>,
    << "p", ":", "k", "=", ";", "m" >> }

\* C19: withTag(k, '') and builder.tag(k, '') raise EMPTY_TAG and change no
\* object (the receiver, the builder's tags), fromString raises EMPTY_TAG for
\* k= and k="", and after every call no tag object holds an empty value.
C19_NoEmptyValueStored ==
  [][ /\ (call'.op = "withTag" /\ call'.value = << >>) =>
           (call'.res.code = "EMPTY_TAG" /\ mem' = mem)
      /\ (call'.op = "tag" /\ call'.value = << >>) =>
           (call'.res.code = "EMPTY_TAG" /\ mem' = mem /\ builder' = builder)
      /\ (call'.op = "fromString" /\ call'.key \in EmptyValueTexts) =>
           (call'.res.code = "EMPTY_TAG" /\ mem' = mem)
      /\ \A ref \in 1..Len(mem'.heap) :
           \A i \in 1..Len(mem'.heap[ref]) : mem'.heap[ref][i].v # << >> ]_vars

\* builder.tag(key, '') raised EMPTY_TAG on a builder that holds a tag, while a
\* descriptor with a tag exists.
C19_Witness ==
  /\ call.op = "tag"
  /\ call.value = << >>
  /\ call.res.code = "EMPTY_TAG"
  /\ mem.heap[builder.tags] # << >>
  /\ \E d \in 1..Len(mem.descs) : Deref(mem, d).tags # << >>

\* The last call was a successful withTag or builder.tag.
AddedValue == call.op \in { "withTag", "tag" } /\ call.res.code = "OK"

\* The value the descriptor returned by withTag, or the builder after tag,
\* holds for the key of the call.
Stored ==
  IF call.op = "withTag"
  THEN Get(Deref(mem, call.res.val).tags, toLowerCase(call.key))
  ELSE Get(mem.heap[builder.tags], toLowerCase(call.key))

\* A tag with value v is an exact value for specificity (it scores 3), for
\* conformsTo (as a pattern it is met neither by a missing tag nor by another
\* value) and for toString (it is written k=v, and not k, k=? or k=!).
TreatedAsExact(v) ==
  LET t == TaggedUrn(<< "p" >>, << [k |-> << "k" >>, v |-> v] >>)
      missing == TaggedUrn(<< "p" >>, << >>)
      another == TaggedUrn(<< "p" >>, << [k |-> << "k" >>, v |-> v \o << "x" >>] >>)
      text == toString(t)
  IN  /\ specificity(t) = 3
      /\ conformsTo(missing, t) = Return(FALSE)
      /\ conformsTo(another, t) = Return(FALSE)
      /\ Len(text) > 4
      /\ SubSeq(text, 1, 4) = << "p", ":", "k", "=" >>
      /\ SubSeq(text, 5, Len(text)) \notin { Question, Bang }

MixedValues(x) ==
  /\ Len(x.tags) = 2
  /\ \E i \in 1..2 : x.tags[i].v \in { Bang, Question }

\* C21: when a and b have the same prefix and identical tag maps
\* (isEquivalent), a.isComparable(b) answers true, because a.conformsTo(b)
\* does; and a.conformsTo(a) answers true whatever values a holds.
C21_EquivalentIsComparable ==
  /\ (out.op = "isComparable" /\ isEquivalent(a, b) = Return(TRUE)) =>
       /\ out.res = Return(TRUE)
       /\ conformsTo(a, b) = Return(TRUE)
       /\ conformsTo(b, a) = Return(TRUE)
  /\ out.op = "conformsToSelf" => out.res = Return(TRUE)

\* isComparable was asked of two equivalent descriptors that hold two tags,
\* one of them ! or ?.
C21_Witness ==
  /\ out.op = "isComparable"
  /\ isEquivalent(a, b) = Return(TRUE)
  /\ MixedValues(a)
  /\ out.res = Return(TRUE)

(***************************************************************************)
(* Properties of one call of fromString                                    *)
(***************************************************************************)

\* The call has returned or thrown.
Done == run.phase = "done"

\* The text before the tags is a prefix of key characters and its colon, so
\* that the tags of the input are what the loop reads.
GoodHead == input.head \in { << "p", ":" >>, << "P", "r", ":" >> }

\* The input passes the checks made before the tags are read: a valid prefix
\* and no space at the end.
ReadsTags ==
  /\ GoodHead
  /\ ~IsWhitespace(InputString(input)[Len(InputString(input))])

\* What fromString makes of a tag written alone after a prefix.
Alone(seg) == fromString(<< "p", ":" >> \o seg)

\* seg is a tag fromString accepts when it is the only one.
ValidTag(seg) == seg # << >> /\ Alone(seg).code = "OK"

\* The key a tag is written with (the text before its "="), lowercased.
TagKey(seg) ==
  IF \E i \in 1..Len(seg) : seg[i] = "="
  THEN toLowerCase(SubSeq(seg, 1, (CHOOSE i \in 1..Len(seg) :
                                     seg[i] = "=" /\ \A j \in 1..(i - 1) : seg[j] # "=") - 1))
  ELSE toLowerCase(seg)

\* The tags up to the j-th are valid or empty, and the j-th has the key of an
\* earlier one.
DuplicateAt(j) ==
  /\ \A i \in 1..j : input.segments[i] = << >> \/ ValidTag(input.segments[i])
  /\ ValidTag(input.segments[j])
  /\ \E i \in 1..(j - 1) :
       ValidTag(input.segments[i]) /\ TagKey(input.segments[i]) = TagKey(input.segments[j])

\* C22: when the input has a valid prefix, no space at its end, and its j-th
\* tag is the first to repeat the key of an earlier valid tag (after
\* lowercasing, in any of the bare, unquoted and quoted forms), fromString
\* throws DUPLICATE_KEY at the end of the j-th tag and returns no descriptor.
C22_DuplicateKeyRejected ==
  \A j \in 1..Len(input.segments) :
    (Done /\ ReadsTags /\ DuplicateAt(j) /\ \A i \in 1..(j - 1) : ~DuplicateAt(i)) =>
      /\ run.res = Throw("DUPLICATE_KEY", NoUrn)
      /\ run.pos = Len(join(SubSeq(input.segments, 1, j)))

\* seg is a key written alone: key characters only, not purely numeric.
BareKey(seg) ==
  /\ seg # << >>
  /\ \A i \in 1..Len(seg) : isValidKeyChar(seg[i])
  /\ ~IsNumeric(seg)

\* seg is a key followed by "=" and nothing.
KeyAndEquals(seg) ==
  /\ Len(seg) > 1
  /\ seg[Len(seg)] = "="
  /\ BareKey(SubSeq(seg, 1, Len(seg) - 1))

\* The input with its j-th tag replaced by seg.
WithSegment(j, seg) == input.head \o join([input.segments EXCEPT ![j] = seg])

\* The parser reaches the end of the j-th tag: the prefix is valid and the tags
\* before it are valid or empty and repeat no key.
ReachesEndOf(j) ==
  /\ ReadsTags
  /\ \A i \in 1..(j - 1) :
       /\ input.segments[i] = << >> \/ ValidTag(input.segments[i])
       /\ ~DuplicateAt(i)
  /\ ~DuplicateAt(j)

\* C23: a key written alone (before ";" or at the end of the input) is stored
\* with the value * and the input parses to what it parses to with key=*
\* written in its place; key= before ";" or at the end of the input is
\* rejected with EMPTY_TAG.
C23_ValuelessIsWildcardEmptyIsError ==
  \A j \in 1..Len(input.segments) :
    LET seg == input.segments[j]
    IN  /\ (Done /\ GoodHead /\ run.res.code = "OK" /\ BareKey(seg)) =>
             /\ hasOwnProperty(run.res.val.tags, toLowerCase(seg))
             /\ Get(run.res.val.tags, toLowerCase(seg)) = Star
             /\ run.res = fromString(WithSegment(j, seg \o << "=", "*" >>))
        /\ (Done /\ ReachesEndOf(j) /\ KeyAndEquals(seg)) =>
             run.res = Throw("EMPTY_TAG", NoUrn)

\* s begins or ends with whitespace.
EdgeWhitespace(s) == s # << >> /\ (IsWhitespace(s[1]) \/ IsWhitespace(s[Len(s)]))

HasColon(s) == \E i \in 1..Len(s) : s[i] = ":"

\* The text of s after its first colon.
AfterFirstColon(s) ==
  LET first == CHOOSE i \in 1..Len(s) : s[i] = ":" /\ \A j \in 1..(i - 1) : s[j] # ":"
  IN  SubSeq(s, first + 1, Len(s))

PreCheckCodes == { "INVALID_FORMAT", "WHITESPACE_IN_INPUT", "MISSING_PREFIX", "EMPTY_PREFIX" }

\* The outcome of the checks on s in the order whitespace, colon, prefix; an
\* input that passes them is rejected with none of their codes, and the loop
\* reads the text after the first colon from its first character.
PrecedenceFrom(s) ==
  IF EdgeWhitespace(s) THEN run.res = Throw("WHITESPACE_IN_INPUT", NoUrn)
  ELSE IF ~HasColon(s) THEN run.res = Throw("MISSING_PREFIX", NoUrn)
  ELSE IF s[1] = ":" THEN run.res = Throw("EMPTY_PREFIX", NoUrn)
  ELSE /\ run.res.code \notin PreCheckCodes
       /\ run.phase = "loop" => run.chars = AfterFirstColon(s)
       /\ (run.phase = "loop" /\ run.pos = 0) => run.cfg = ParserStart

\* C24 as stated: for every input string the pre-checks answer in the order
\* whitespace (WHITESPACE_IN_INPUT), no colon (MISSING_PREFIX), colon first
\* (EMPTY_PREFIX), and the state machine runs on the text after the first colon.
C24_PreCheckPrecedence ==
  run.phase # "idle" => PrecedenceFrom(InputString(input))

\* C24 amended: the empty string is rejected with INVALID_FORMAT before the
\* other checks, which answer in the stated order for every other string.
C24_PreCheckPrecedenceOfNonEmpty ==
  run.phase # "idle" =>
    IF InputString(input) = << >>
    THEN run.res = Throw("INVALID_FORMAT", NoUrn)
    ELSE PrecedenceFrom(InputString(input))

\* An input with a leading space and no colon was rejected for its whitespace.
C24_Witness ==
  /\ Done
  /\ Len(input.segments) = 2
  /\ IsWhitespace(InputString(input)[1])
  /\ ~HasColon(InputString(input))
  /\ run.res = Throw("WHITESPACE_IN_INPUT", NoUrn)

\* The text of s before its first colon.
BeforeFirstColon(s) ==
  LET first == CHOOSE i \in 1..Len(s) : s[i] = ":" /\ \A j \in 1..(i - 1) : s[j] # ":"
  IN  SubSeq(s, 1, first - 1)

\* p is a non-empty sequence of key characters.
PrefixGrammar(p) == p # << >> /\ \A i \in 1..Len(p) : isValidKeyChar(p[i])

\* C25: fromString returns a descriptor only when the text before the first
\* colon is a non-empty sequence of key characters, and the prefix of the
\* descriptor is that text in lower case.
C25_AcceptedPrefixIsKeyCharacters ==
  (Done /\ run.res.code = "OK") =>
    /\ PrefixGrammar(BeforeFirstColon(InputString(input)))
    /\ PrefixGrammar(run.res.val.prefix)
    /\ run.res.val.prefix = toLowerCase(BeforeFirstColon(InputString(input)))

\* The character the loop is about to read.
Current == run.chars[run.pos + 1]

\* The call goes on in state st with value v, the key and the tags as before.
GoesOn(st, v) ==
  /\ run'.phase = "loop"
  /\ run'.pos = run.pos + 1
  /\ run'.cfg = [run.cfg EXCEPT !.state = st, !.currentValue = v]

\* The call ends with the error code.
Throws(code) == run'.phase = "done" /\ run'.res = Throw(code, NoUrn)

\* C26: a " in EXPECTING_VALUE opens a quoted value; inside it " closes the
\* value, \ starts an escape and every other character is appended as it is;
\* after \ only " and \ are appended, any other character throws
\* INVALID_ESCAPE_SEQUENCE; the end of the input inside the value or after \
\* throws UNTERMINATED_QUOTE; after the closing quote ";" completes the tag
\* and any other character throws INVALID_CHARACTER.
C26_QuotedValueAutomaton ==
  [][ run.phase = "loop" =>
        IF run.pos < Len(run.chars)
        THEN /\ (run.cfg.state = "EXPECTING_VALUE" /\ Current = "\"") =>
                  GoesOn("IN_QUOTED_VALUE", run.cfg.currentValue)
             /\ run.cfg.state = "IN_QUOTED_VALUE" =>
                  IF Current = "\"" THEN GoesOn("EXPECTING_SEMI_OR_END", run.cfg.currentValue)
                  ELSE IF Current = "\\" THEN GoesOn("IN_QUOTED_VALUE_ESCAPE", run.cfg.currentValue)
                  ELSE GoesOn("IN_QUOTED_VALUE", Append(run.cfg.currentValue, Current))
             /\ run.cfg.state = "IN_QUOTED_VALUE_ESCAPE" =>
                  IF Current \in { "\"", "\\" }
                  THEN GoesOn("IN_QUOTED_VALUE", Append(run.cfg.currentValue, Current))
                  ELSE Throws("INVALID_ESCAPE_SEQUENCE")
             /\ run.cfg.state = "EXPECTING_SEMI_OR_END" =>
                  IF Current = ";"
                  THEN run'.res.code \in { "NOT_CALLED", "EMPTY_TAG", "DUPLICATE_KEY", "NUMERIC_KEY" }
                  ELSE Throws("INVALID_CHARACTER")
        ELSE /\ run.cfg.state \in { "IN_QUOTED_VALUE", "IN_QUOTED_VALUE_ESCAPE" } =>
                  Throws("UNTERMINATED_QUOTE")
             /\ run.cfg.state = "EXPECTING_SEMI_OR_END" =>
                  run'.res.code \in { "OK", "EMPTY_TAG", "DUPLICATE_KEY", "NUMERIC_KEY" } ]_vars

\* A call returned a descriptor whose quoted value holds a quote, a semicolon
\* and a backslash.
C26_Witness ==
  /\ Done
  /\ run.res.code = "OK"
  /\ \E i \in 1..Len(run.res.val.tags) :
       { "\"", ";", "\\" } \subseteq
         { run.res.val.tags[i].v[n] : n \in 1..Len(run.res.val.tags[i].v) }

\* The call ended in a descriptor with the prefix of the input, or in one
\* error and no descriptor.
OneOutcome ==
  \/ run.res.code = "OK" /\ run.res.val.prefix = run.prefix
  \/ /\ run.res.code \in { "INVALID_FORMAT", "WHITESPACE_IN_INPUT", "MISSING_PREFIX",
                           "EMPTY_PREFIX", "INVALID_CHARACTER", "EMPTY_TAG", "DUPLICATE_KEY",
                           "NUMERIC_KEY", "UNTERMINATED_QUOTE", "INVALID_ESCAPE_SEQUENCE" }
     /\ run.res.val = NoUrn

\* C27: every call of fromString ends; each iteration of the loop either
\* throws or moves pos by exactly one character (an empty segment included),
\* so the loop runs at most once per character; the call ends in a descriptor
\* or in one error without a descriptor, and nothing changes after that.
C27_FromStringTerminates ==
  /\ <>Done
  /\ [](Done => OneOutcome)
  /\ [](run.pos <= Len(run.chars))
  /\ [][ /\ run.phase = "loop" => (run'.phase = "done" \/ run'.pos = run.pos + 1)
         /\ run.phase # "done"
         /\ run.phase = "idle" => run'.pos = 0 ]_vars

\* A call that skipped an empty segment at the start returned a descriptor
\* with one tag, having read every character.
C27_Witness ==
  /\ Done
  /\ run.res.code = "OK"
  /\ Len(run.chars) > 1
  /\ run.chars[1] = ";"
  /\ run.pos = Len(run.chars)
  /\ Len(run.res.val.tags) = 1

\* seg is key="S" with S one of *, ? and !.
QuotedSentinel(seg) ==
  /\ Len(seg) = 5
  /\ seg[2] = "="
  /\ seg[3] = "\""
  /\ seg[5] = "\""
  /\ << seg[4] >> \in { Star, Question, Bang }

\* key="S" written without the quotes.
Unquoted(seg) == << seg[1], "=", seg[4] >>

\* The score of a tag with value v: 2 for *, 1 for !, 0 for ? and 3 otherwise.
ScoreOf(v) == specificity(TaggedUrn(<< "p" >>, << [k |-> << "k" >>, v |-> v] >>))

\* The j-th segment is read as a tag: the prefix is valid, and the segments
\* before it are valid tags or empty, so that none leaves a quote open.
ReadAsTag(j) ==
  /\ ReadsTags
  /\ \A i \in 1..(j - 1) : input.segments[i] = << >> \/ ValidTag(input.segments[i])

\* C29: an input with the tag k="*", k="?" or k="!" has the outcome of the
\* input with k=*, k=? or k=! in its place (and k="*" that of the bare key k);
\* when a descriptor is returned the tag holds the sentinel itself, scores 2,
\* 0 or 1 and not 3, its pattern k=* is met by another value and not by a
\* missing tag, and it is written as k, k=? or k=!; no tag of a parsed
\* descriptor whose value is the text *, ? or ! counts as an exact value.
C29_QuotedSentinelIsSentinel ==
  /\ \A j \in 1..Len(input.segments) :
       LET seg == input.segments[j]
           stored == Get(run.res.val.tags, << seg[1] >>)
           one == TaggedUrn(<< "p" >>, << [k |-> << seg[1] >>, v |-> stored] >>)
           other == TaggedUrn(<< "p" >>, << [k |-> << seg[1] >>, v |-> << "z" >>] >>)
       IN  (Done /\ ReadAsTag(j) /\ QuotedSentinel(seg)) =>
             /\ run.res = fromString(WithSegment(j, Unquoted(seg)))
             /\ seg[4] = "*" => run.res = fromString(WithSegment(j, << seg[1] >>))
             /\ run.res.code = "OK" =>
                  /\ stored = << seg[4] >>
                  /\ ScoreOf(stored) = (CASE stored = Star -> 2
                                          [] stored = Bang -> 1
                                          [] stored = Question -> 0)
                  /\ stored = Star =>
                       /\ conformsTo(other, one) = Return(TRUE)
                       /\ conformsTo(empty(<< "p" >>), one) = Return(FALSE)
                  /\ tagPart(run.res.val.tags, << seg[1] >>) =
                       (IF stored = Star THEN << seg[1] >> ELSE Unquoted(seg))
  /\ (Done /\ run.res.code = "OK") =>
       \A i \in 1..Len(run.res.val.tags) :
         run.res.val.tags[i].v \in { Star, Question, Bang } =>
           ScoreOf(run.res.val.tags[i].v) < 3

\* A descriptor was parsed from an input with k="*" and another tag.
C29_Witness ==
  /\ Done
  /\ run.res.code = "OK"
  /\ Len(run.res.val.tags) = 2
  /\ \E j \in 1..Len(input.segments) :
       input.segments[j] = << "k", "=", "\"", "*", "\"" >>

\* The machine stands between two transitions (it is about to read a
\* character or the end of the input), or it has thrown.
AtConfiguration == run.phase = "loop" \/ (Done /\ run.res.code # "OK")

\* C30: whenever the machine is in EXPECTING_KEY, currentKey and currentValue
\* are empty; in every other state currentKey is not empty; so finishTag is
\* never called with an empty key, no call ends with the error 'empty key',
\* and a tag that begins with "=" is rejected with INVALID_CHARACTER.
C30_ParserStateInvariant ==
  /\ AtConfiguration =>
       IF run.cfg.state = "EXPECTING_KEY"
       THEN run.cfg.currentKey = << >> /\ run.cfg.currentValue = << >>
       ELSE run.cfg.currentKey # << >>
  /\ run.cfg.message # "empty key"
  /\ \A j \in 1..Len(input.segments) :
       (Done /\ ReachesEndOf(j) /\ input.segments[j] # << >> /\ input.segments[j][1] = "=") =>
         run.res = Throw("INVALID_CHARACTER", NoUrn)

\* The machine is back in EXPECTING_KEY after a completed tag and is about to
\* read "=".
C30_Witness ==
  /\ run.phase = "loop"
  /\ run.cfg.state = "EXPECTING_KEY"
  /\ Len(run.cfg.tags) = 1
  /\ run.pos < Len(run.chars)
  /\ run.chars[run.pos + 1] = "="

(***************************************************************************)
(* Properties of the builder                                               *)
(***************************************************************************)

\* Every descriptor that exists keeps its prefix, its tag object and the
\* content of that object through the step.
DescriptorsKept ==
  \A d \in 1..Len(mem.descs) :
    mem'.descs[d] = mem.descs[d] /\ Deref(mem', d) = Deref(mem, d)

\* C28: builder.tag(...) changes no descriptor built before; a successful
\* build() or buildAllowEmpty() returns a new descriptor with the builder's
\* prefix and the tags the builder holds at that moment, in a tag object of
\* its own; no descriptor ever refers to the builder's tag object.
C28_BuiltDescriptorsAreIsolated ==
  [][ /\ call'.op = "tag" => DescriptorsKept
      /\ (call'.op \in { "build", "buildAllowEmpty" } /\ call'.res.code = "OK") =>
           /\ DescriptorsKept
           /\ call'.res.val = Len(mem.descs) + 1
           /\ Deref(mem', call'.res.val) =
                [prefix |-> builder.prefix, tags |-> mem.heap[builder.tags]]
      /\ \A d \in 1..Len(mem'.descs) : mem'.descs[d].tags # builder'.tags ]_vars

\* Two descriptors were built from one builder, the second after a tag was
\* overwritten and a key added, and the first still has what it was built with.
C28_Witness ==
  /\ call.op = "build"
  /\ call.res = Return(2)
  /\ Deref(mem, 1).tags = << [k |-> << "k" >>, v |-> << "v" >>] >>
  /\ Deref(mem, 2).tags = << [k |-> << "k" >>, v |-> Star], [k |-> << "m" >>, v |-> << "v" >>] >>
  /\ mem.heap[builder.tags] = Deref(mem, 2).tags

====
